---- MODULE Spec2Model ----
(***************************************************************************)
(* Git History Explorer: the aggregated repository data, the heat-map      *)
(* projection and the interactive view state (AppState) with its           *)
(* keystroke transition function handle_key_event.                         *)
(*                                                                         *)
(* Option<T> is a sequence of length 0 (None) or 1 (Some(x)).  A String is *)
(* a sequence of one-character strings.  A NaiveDate is a record           *)
(* [y, m, d].  A HashMap is a function whose DOMAIN is its key set.        *)
(***************************************************************************)
EXTENDS Integers, Sequences, FiniteSets, TLC

VARIABLES
    repository_data,      \* AppState.repository_data (commit_data, heatmap_data, author_timeline_data)
    selected_row,         \* AppState.selected_row
    sort_column,          \* AppState.sort_column
    sort_direction,       \* AppState.sort_direction
    filter_text,          \* AppState.filter_text
    show_search,          \* AppState.show_search
    error_message,        \* AppState.error_message
    selected_author,      \* AppState.selected_author
    author_heatmap_data,  \* AppState.author_heatmap_data
    current_year,         \* Utc::now().date_naive().year() during the session
    lastKey,              \* the key code of the latest handle_key_event call
    ret,                  \* the value the latest handle_key_event call returned
    typed,                \* history: Some(characters keyed since '/' opened the search), else None
    walk,                 \* history: the commits the revwalk yields from HEAD, newest first
    run_config,           \* the RepositoryConfig of the run
    walk_rest,            \* collect_commit_info_polars: the commits revwalk has still to yield
    commit_rows,          \* collect_commit_info_polars: the emails and dates vectors, row by row
    processed,            \* collect_commit_info_polars: commits_processed
    pc,                   \* "walk" in the revwalk loop, "group" behind it, "tui" once the data is returned
    terminal,             \* the display mode of the terminal: raw mode, alternate screen
    tui_pc,               \* run_tui: the call it stands before, "Ok" or "Err" once it has returned
    event,                \* history: what the latest event::read() of run_tui was, "" before the first
    reported,             \* main: how many times it has printed "Error: ..." on stderr
    exit_code             \* Some(code) once the process has exited, else None

vars == << repository_data, selected_row, sort_column, sort_direction, filter_text,
           show_search, error_message, selected_author, author_heatmap_data,
           current_year, lastKey, ret, typed,
           walk, run_config, walk_rest, commit_rows, processed, pc,
           terminal, tui_pc, event, reported, exit_code >>

appFields == << repository_data, selected_row, sort_column, sort_direction, filter_text,
                show_search, error_message, selected_author, author_heatmap_data >>

\* The input of the aggregation and the locals of collect_commit_info_polars.
aggFields == << walk, run_config, walk_rest, commit_rows, processed, pc >>

\* The terminal and the position of run_tui.
tuiFields == << terminal, tui_pc, event >>

\* What main leaves behind: its report of an error and the exit code.
mainFields == << reported, exit_code >>

\* The terminal as run_tui finds it: no raw mode, the main screen.
Cooked == [raw_mode |-> FALSE, alternate_screen |-> FALSE]

-----------------------------------------------------------------------------
(* Bounds of the model.                                                    *)

\* Longest filter_text (and keyed history) the model lets the user type.
MaxFilterLen == 2

-----------------------------------------------------------------------------
(* Option, strings                                                         *)

None == << >>
Some(x) == << x >>
IsSome(o) == Len(o) = 1
Unwrap(o) == o[1]

\* The byte of each character the model uses (str::cmp compares bytes).
CharCode(c) ==
    CASE c = "/" -> 47
      [] c = "1" -> 49
      [] c = "2" -> 50
      [] c = "3" -> 51
      [] c = "4" -> 52
      [] c = "5" -> 53
      [] c = "R" -> 82
      [] c = "q" -> 113
      [] c = "r" -> 114

\* The characters of the model: those handle_key_event names.  In search mode
\* 'r', 'R' and the digits are ordinary text, and the author emails are made
\* of them.
Chars == {"/", "1", "2", "3", "4", "5", "R", "q", "r"}

\* char::to_lowercase on the model's characters.
LowerChar(c) == IF c = "R" THEN "r" ELSE c

\* str::to_lowercase
to_lowercase(s) == [i \in 1..Len(s) |-> LowerChar(s[i])]

\* str::contains(pattern): pattern occurs as a contiguous substring.
contains(s, p) ==
    \E i \in 0..(Len(s) - Len(p)) : \A j \in 1..Len(p) : s[i + j] = p[j]

\* Ordering::{Less, Equal, Greater} as -1, 0, 1.
CmpInt(a, b) == IF a < b THEN -1 ELSE IF a > b THEN 1 ELSE 0

\* str::cmp: lexicographic by bytes, a proper prefix is Less.
RECURSIVE CmpStr(_, _)
CmpStr(a, b) ==
    IF Len(a) = 0 /\ Len(b) = 0 THEN 0
    ELSE IF Len(a) = 0 THEN -1
    ELSE IF Len(b) = 0 THEN 1
    ELSE IF CharCode(a[1]) # CharCode(b[1]) THEN CmpInt(CharCode(a[1]), CharCode(b[1]))
    ELSE CmpStr(Tail(a), Tail(b))

-----------------------------------------------------------------------------
(* chrono::NaiveDate                                                       *)

IsLeap(y) == (y % 4 = 0 /\ y % 100 # 0) \/ y % 400 = 0

DaysInMonth(y, m) ==
    IF m = 2 THEN (IF IsLeap(y) THEN 29 ELSE 28)
    ELSE IF m \in {4, 6, 9, 11} THEN 30 ELSE 31

\* NaiveDate::from_ymd_opt
from_ymd_opt(y, m, d) ==
    IF m \in 1..12 /\ d >= 1 /\ d <= DaysInMonth(y, m)
    THEN Some([y |-> y, m |-> m, d |-> d])
    ELSE None

Date(y, m, d) == [y |-> y, m |-> m, d |-> d]

\* NaiveDate's Ord: chronological.
CmpDate(a, b) ==
    IF a.y # b.y THEN CmpInt(a.y, b.y)
    ELSE IF a.m # b.m THEN CmpInt(a.m, b.m)
    ELSE CmpInt(a.d, b.d)

DateLt(a, b) == CmpDate(a, b) = -1

\* Leap years in 1..n (proleptic Gregorian).
LeapsUpTo(n) == (n \div 4) - (n \div 100) + (n \div 400)

RECURSIVE DaysBeforeMonth(_, _)
DaysBeforeMonth(y, m) ==
    IF m = 1 THEN 0 ELSE DaysBeforeMonth(y, m - 1) + DaysInMonth(y, m - 1)

\* Days from 1970-01-01 to the date (negative before it).
DaysFromEpoch(date) ==
    365 * (date.y - 1970) + (LeapsUpTo(date.y - 1) - LeapsUpTo(1969))
    + DaysBeforeMonth(date.y, date.m) + (date.d - 1)

\* (a - b).num_days()
NumDaysBetween(a, b) == DaysFromEpoch(a) - DaysFromEpoch(b)

-----------------------------------------------------------------------------
(* HashMap helpers                                                         *)

EmptyMap == << >>

\* HashMap::get(k).unwrap_or(0) on a map of counters.
GetOr0(map, k) == IF k \in DOMAIN map THEN map[k] ELSE 0

\* *map.entry(k).or_insert(0) += n
AddAt(map, k, n) ==
    [x \in (DOMAIN map) \cup {k} |-> IF x = k THEN GetOr0(map, k) + n ELSE map[x]]

\* HashMap::insert(k, v)
Insert(map, k, v) ==
    [x \in (DOMAIN map) \cup {k} |-> IF x = k THEN v ELSE map[x]]

\* A set as a sequence in some order (iteration order of a HashMap or of a
\* group_by is not specified).
RECURSIVE SetToSeq(_)
SetToSeq(S) ==
    IF S = {} THEN << >>
    ELSE LET x == CHOOSE x \in S : TRUE IN << x >> \o SetToSeq(S \ {x})

\* Every ordering of a finite set.
Orderings(S) ==
    { p \in [1..Cardinality(S) -> S] : \A x \in S : \E i \in DOMAIN p : p[i] = x }

-----------------------------------------------------------------------------
(* user_commit_info.rs                                                     *)

\* CommitData::new
CommitData(email, commits, first_commit, last_commit) ==
    [email |-> email, commits |-> commits,
     first_commit |-> first_commit, last_commit |-> last_commit]

\* CommitData::days_between
days_between(data) == NumDaysBetween(data.last_commit, data.first_commit)

\* TimelineData::default
TimelineDefault ==
    [commits_by_period |-> EmptyMap, total_commits |-> 0,
     first_commit |-> Date(2099, 1, 1), last_commit |-> Date(1900, 1, 1)]

\* Variant of add_commit that counts the call, not its commits, into the
\* total.
add_commit_counting_calls(t, date, commits) ==
    [commits_by_period |-> AddAt(t.commits_by_period, date, commits),
     total_commits |-> t.total_commits + 1,
     first_commit |-> IF DateLt(date, t.first_commit) THEN date ELSE t.first_commit,
     last_commit |-> IF DateLt(t.last_commit, date) THEN date ELSE t.last_commit]

\* TimelineData::add_commit
add_commit(t, date, commits) ==
    [commits_by_period |-> AddAt(t.commits_by_period, date, commits),
     total_commits |-> t.total_commits + commits,
     first_commit |-> IF DateLt(date, t.first_commit) THEN date ELSE t.first_commit,
     last_commit |-> IF DateLt(t.last_commit, date) THEN date ELSE t.last_commit]

-----------------------------------------------------------------------------
(* heatmap.rs                                                              *)

\* HeatMapData::default / HeatMapData::new
HeatMapNew ==
    [commits_by_date |-> EmptyMap, start_date |-> Date(2099, 1, 1),
     end_date |-> Date(1900, 1, 1), max_commits |-> 0]

Max(a, b) == IF a >= b THEN a ELSE b

\* Variant of add_commits whose maximum follows the count given, not the
\* count accumulated on the date.
add_commits_max_of_counts(h, date, count) ==
    [commits_by_date |-> AddAt(h.commits_by_date, date, count),
     max_commits |-> Max(h.max_commits, count),
     start_date |-> IF DateLt(date, h.start_date) THEN date ELSE h.start_date,
     end_date |-> IF DateLt(h.end_date, date) THEN date ELSE h.end_date]

\* HeatMapData::add_commits
add_commits(h, date, count) ==
    LET by_date == AddAt(h.commits_by_date, date, count) IN
    [commits_by_date |-> by_date,
     max_commits |-> Max(h.max_commits, by_date[date]),
     start_date |-> IF DateLt(date, h.start_date) THEN date ELSE h.start_date,
     end_date |-> IF DateLt(h.end_date, date) THEN date ELSE h.end_date]

\* HeatMapData::get_commits
get_commits(h, date) == GetOr0(h.commits_by_date, date)

\* u32::min
Min(a, b) == IF a <= b THEN a ELSE b

\* Variant of get_intensity_level whose quartile bounds are exclusive.
get_intensity_level_exclusive(h, commits) ==
    IF commits = 0 THEN 0
    ELSE IF h.max_commits <= 4 THEN Min(commits, 4)
    ELSE LET quartile == h.max_commits \div 4 IN
         IF commits < quartile THEN 1
         ELSE IF commits < quartile * 2 THEN 2
         ELSE IF commits < quartile * 3 THEN 3
         ELSE 4

\* Variant of get_intensity_level that takes the direct mapping whenever the
\* count asked about, not the maximum, is at most 4.
get_intensity_level_small_counts(h, commits) ==
    IF commits = 0 THEN 0
    ELSE IF commits <= 4 THEN Min(commits, 4)
    ELSE LET quartile == h.max_commits \div 4 IN
         IF commits <= quartile THEN 1
         ELSE IF commits <= quartile * 2 THEN 2
         ELSE IF commits <= quartile * 3 THEN 3
         ELSE 4

\* HeatMapData::get_intensity_level
get_intensity_level(h, commits) ==
    IF commits = 0 THEN 0
    ELSE IF h.max_commits <= 4 THEN Min(commits, 4)
    ELSE LET quartile == h.max_commits \div 4 IN
         IF commits <= quartile THEN 1
         ELSE IF commits <= quartile * 2 THEN 2
         ELSE IF commits <= quartile * 3 THEN 3
         ELSE 4

\* Variant of the projection without the fallback: a date the year does not
\* have becomes the last day of its month in that year.
calendar_date_clamped(year, historical_date) ==
    LET o == from_ymd_opt(year, historical_date.m, historical_date.d) IN
    IF IsSome(o) THEN Unwrap(o)
    ELSE Date(year, historical_date.m, DaysInMonth(year, historical_date.m))

\* NaiveDate::from_ymd_opt(year, date.month(), date.day()).unwrap_or(date)
calendar_date(year, historical_date) ==
    LET o == from_ymd_opt(year, historical_date.m, historical_date.d) IN
    IF IsSome(o) THEN Unwrap(o) ELSE historical_date

\* The loop of create_from_timeline_data over the (date, commits) entries
\* still to visit, in the order given.
RECURSIVE ProjectDates(_, _, _, _)
ProjectDates(h, by_period, dates, year) ==
    IF dates = << >> THEN h
    ELSE ProjectDates(add_commits(h, calendar_date(year, Head(dates)), by_period[Head(dates)]),
                      by_period, Tail(dates), year)

\* Variant of create_from_timeline_data that projects into the year before
\* the one given.
create_from_timeline_data_year_before(timeline_data, year) ==
    ProjectDates(HeatMapNew, timeline_data.commits_by_period,
                 SetToSeq(DOMAIN timeline_data.commits_by_period), year - 1)

\* HeatMapData::create_from_timeline_data, with the clock's year as input.
create_from_timeline_data(timeline_data, year) ==
    ProjectDates(HeatMapNew, timeline_data.commits_by_period,
                 SetToSeq(DOMAIN timeline_data.commits_by_period), year)

-----------------------------------------------------------------------------
(* Sorting: slice::sort_by is a stable sort.                               *)

\* Insert x into an already sorted sequence, behind every element that does
\* not compare Greater than x.  cmp[<<a, b>>] is the comparator's Ordering.
RECURSIVE InsertStable(_, _, _)
InsertStable(sorted, x, cmp) ==
    IF sorted = << >> THEN << x >>
    ELSE LET n == Len(sorted) IN
         IF cmp[<< sorted[n], x >>] = 1
         THEN Append(InsertStable(SubSeq(sorted, 1, n - 1), x, cmp), sorted[n])
         ELSE Append(sorted, x)

RECURSIVE StableSort(_, _)
StableSort(seq, cmp) ==
    IF seq = << >> THEN << >>
    ELSE LET n == Len(seq) IN
         InsertStable(StableSort(SubSeq(seq, 1, n - 1), cmp), seq[n], cmp)

Range(seq) == { seq[i] : i \in DOMAIN seq }

-----------------------------------------------------------------------------
(* repository.rs                                                           *)

\* RepositoryConfig
RepositoryConfig(max_commits, since_date, until_date) ==
    [max_commits |-> max_commits, since_date |-> since_date, until_date |-> until_date]

\* One commit of the revwalk: the author's email (None when git2 cannot give
\* it) and the UTC date of its time (None when the timestamp has no date).
Commit(email, date) == [email |-> email, date |-> date]

\* The revwalk loop of collect_commit_info_polars: the (email, date) rows
\* pushed, given the rows and the count of commits processed so far.
RECURSIVE CollectRows(_, _, _, _)
CollectRows(revwalk, config, rows, commits_processed) ==
    IF revwalk = << >> THEN rows
    ELSE IF IsSome(config.max_commits) /\ commits_processed >= Unwrap(config.max_commits)
    THEN rows
    ELSE LET commit == Head(revwalk) IN
         IF IsSome(commit.email) /\ IsSome(commit.date)
         THEN LET commit_date == Unwrap(commit.date) IN
              IF IsSome(config.since_date) /\ DateLt(commit_date, Unwrap(config.since_date))
              THEN CollectRows(Tail(revwalk), config, rows, commits_processed)
              ELSE IF IsSome(config.until_date) /\ DateLt(Unwrap(config.until_date), commit_date)
              THEN CollectRows(Tail(revwalk), config, rows, commits_processed)
              ELSE CollectRows(Tail(revwalk), config,
                               Append(rows, [email |-> Unwrap(commit.email), date |-> commit_date]),
                               commits_processed + 1)
         ELSE CollectRows(Tail(revwalk), config, rows, commits_processed)

MinDate(S) == CHOOSE d \in S : \A e \in S : ~DateLt(e, d)
MaxDate(S) == CHOOSE d \in S : \A e \in S : ~DateLt(d, e)

\* A polars Date column holds days since 1970-01-01.
PolarsDate(date) == DaysFromEpoch(date)

\* *UNIX_EPOCH + chrono::Duration::days(n)
EpochPlusDays(n) ==
    LET y == CHOOSE y \in 1900..2100 :
                 /\ DaysFromEpoch(Date(y, 1, 1)) <= n
                 /\ n < DaysFromEpoch(Date(y + 1, 1, 1))
        m == CHOOSE m \in 1..12 :
                 /\ DaysFromEpoch(Date(y, m, 1)) <= n
                 /\ n < DaysFromEpoch(Date(y, m, 1)) + DaysInMonth(y, m)
    IN Date(y, m, n - DaysFromEpoch(Date(y, m, 1)) + 1)

\* Variant of the grouping that makes one group of each run of consecutive
\* rows of the same email.
author_stats_runs(rows) ==
    LET runs == { p \in (DOMAIN rows) \X (DOMAIN rows) :
                    /\ p[1] <= p[2]
                    /\ \A i \in p[1]..p[2] : rows[i].email = rows[p[1]].email
                    /\ p[1] > 1 => rows[p[1] - 1].email # rows[p[1]].email
                    /\ p[2] < Len(rows) => rows[p[2] + 1].email # rows[p[1]].email }
    IN { [email |-> rows[p[1]].email,
          first_commit |-> PolarsDate(MinDate({ rows[i].date : i \in p[1]..p[2] })),
          last_commit |-> PolarsDate(MaxDate({ rows[i].date : i \in p[1]..p[2] })),
          commit_count |-> p[2] - p[1] + 1] : p \in runs }

\* group_by([email]).agg([min, max, count]): the rows of author_stats (their
\* order is the group_by's, which is not specified).
author_stats(rows) ==
    { [email |-> e,
       first_commit |-> PolarsDate(MinDate({ rows[i].date : i \in { j \in DOMAIN rows : rows[j].email = e } })),
       last_commit |-> PolarsDate(MaxDate({ rows[i].date : i \in { j \in DOMAIN rows : rows[j].email = e } })),
       commit_count |-> Cardinality({ j \in DOMAIN rows : rows[j].email = e })]
      : e \in { rows[i].email : i \in DOMAIN rows } }

\* group_by([email, date]).agg([count]): the rows of timeline_df.
timeline_df(rows) ==
    { [email |-> r.email, date |-> PolarsDate(r.date),
       commits_on_date |-> Cardinality({ j \in DOMAIN rows : rows[j] = r })]
      : r \in Range(rows) }

\* Variant of the conversion that reads the two date columns the other way
\* round.
convert_author_stats_to_commit_info_swapped(stats) ==
    [i \in DOMAIN stats |->
        CommitData(stats[i].email, stats[i].commit_count,
                   EpochPlusDays(stats[i].last_commit), EpochPlusDays(stats[i].first_commit))]

\* convert_author_stats_to_commit_info, for the rows in the order given.
convert_author_stats_to_commit_info(stats) ==
    [i \in DOMAIN stats |->
        CommitData(stats[i].email, stats[i].commit_count,
                   EpochPlusDays(stats[i].first_commit), EpochPlusDays(stats[i].last_commit))]

\* convert_timeline_df_to_timeline_data_map, for the rows in the order given.
RECURSIVE convert_timeline_df_to_timeline_data_map(_, _)
convert_timeline_df_to_timeline_data_map(df, timeline_map) ==
    IF df = << >> THEN timeline_map
    ELSE LET row == Head(df)
             timeline_data == IF row.email \in DOMAIN timeline_map
                              THEN timeline_map[row.email] ELSE TimelineDefault
         IN convert_timeline_df_to_timeline_data_map(
                Tail(df),
                Insert(timeline_map, row.email,
                       add_commit(timeline_data, EpochPlusDays(row.date), row.commits_on_date)))

\* Variant of the comparator without the reversal: first_commit, then
\* last_commit, both ascending.
PrepareCmp_last_ascending(commits) ==
    [p \in Range(commits) \X Range(commits) |->
        IF CmpDate(p[1].first_commit, p[2].first_commit) # 0
        THEN CmpDate(p[1].first_commit, p[2].first_commit)
        ELSE CmpDate(p[1].last_commit, p[2].last_commit)]

\* The comparator of prepare_commit_data: first_commit, then last_commit reversed.
PrepareCmp(commits) ==
    [p \in Range(commits) \X Range(commits) |->
        IF CmpDate(p[1].first_commit, p[2].first_commit) # 0
        THEN CmpDate(p[1].first_commit, p[2].first_commit)
        ELSE 0 - CmpDate(p[1].last_commit, p[2].last_commit)]

\* prepare_commit_data
prepare_commit_data(commits) == StableSort(commits, PrepareCmp(commits))

\* The loops of prepare_heatmap_data_from_map over the authors still to visit.
RECURSIVE ProjectAuthors(_, _, _, _)
ProjectAuthors(h, timeline_data, authors, year) ==
    IF authors = << >> THEN h
    ELSE LET t == timeline_data[Head(authors)] IN
         ProjectAuthors(ProjectDates(h, t.commits_by_period,
                                     SetToSeq(DOMAIN t.commits_by_period), year),
                        timeline_data, Tail(authors), year)

\* Variant of prepare_heatmap_data_from_map that starts a new heat map for
\* each author: the map returned holds the author visited last.
prepare_heatmap_data_from_map_last_author(timeline_data, year) ==
    LET authors == SetToSeq(DOMAIN timeline_data) IN
    IF authors = << >> THEN HeatMapNew
    ELSE create_from_timeline_data(timeline_data[authors[Len(authors)]], year)

\* prepare_heatmap_data_from_map, with the clock's year as input.
prepare_heatmap_data_from_map(timeline_data, year) ==
    ProjectAuthors(HeatMapNew, timeline_data, SetToSeq(DOMAIN timeline_data), year)

\* get_repository_data_with_config once the repository is open: revwalk is
\* the commit walk from HEAD, stats_order the order in which the group_by
\* yields the author_stats rows.
RepositoryData(revwalk, config, stats_order, year) ==
    LET rows == CollectRows(revwalk, config, << >>, 0)
        author_timeline_data ==
            convert_timeline_df_to_timeline_data_map(SetToSeq(timeline_df(rows)), EmptyMap)
    IN [commit_data |-> prepare_commit_data(convert_author_stats_to_commit_info(stats_order)),
        heatmap_data |-> prepare_heatmap_data_from_map(author_timeline_data, year),
        author_timeline_data |-> author_timeline_data]

\* Every RepositoryData the pipeline can return for a walk and a configuration.
RepositoryDatas(revwalk, config, year) ==
    { RepositoryData(revwalk, config, stats_order, year) :
        stats_order \in Orderings(author_stats(CollectRows(revwalk, config, << >>, 0))) }

-----------------------------------------------------------------------------
(* tui.rs: AppState queries                                                *)

\* Variant of filtered_data that compares without lowering the case.
FilteredData_case_sensitive(commit_data, filter) ==
    LET keep == { i \in DOMAIN commit_data :
                    IF filter = << >> THEN TRUE
                    ELSE contains(commit_data[i].email, filter) }
        RECURSIVE Pick(_)
        Pick(i) == IF i > Len(commit_data) THEN << >>
                   ELSE IF i \in keep THEN << commit_data[i] >> \o Pick(i + 1)
                   ELSE Pick(i + 1)
    IN Pick(1)

\* AppState::filtered_data over the given fields.
FilteredData(commit_data, filter) ==
    LET keep == { i \in DOMAIN commit_data :
                    IF filter = << >> THEN TRUE
                    ELSE contains(to_lowercase(commit_data[i].email), to_lowercase(filter)) }
        RECURSIVE Pick(_)
        Pick(i) == IF i > Len(commit_data) THEN << >>
                   ELSE IF i \in keep THEN << commit_data[i] >> \o Pick(i + 1)
                   ELSE Pick(i + 1)
    IN Pick(1)

\* Variant of the comparison whose Commits arm compares first_commit.
SortComparison_commits_by_first(a, b, column) ==
    CASE column = "Email" -> CmpStr(a.email, b.email)
      [] column = "Commits" -> CmpDate(a.first_commit, b.first_commit)
      [] column = "FirstCommit" -> CmpDate(a.first_commit, b.first_commit)
      [] column = "LastCommit" -> CmpDate(a.last_commit, b.last_commit)
      [] column = "DaysBetween" -> CmpInt(days_between(a), days_between(b))

\* The comparison closure of sorted_data.
SortComparison(a, b, column) ==
    CASE column = "Email" -> CmpStr(a.email, b.email)
      [] column = "Commits" -> CmpInt(a.commits, b.commits)
      [] column = "FirstCommit" -> CmpDate(a.first_commit, b.first_commit)
      [] column = "LastCommit" -> CmpDate(a.last_commit, b.last_commit)
      [] column = "DaysBetween" -> CmpInt(days_between(a), days_between(b))

\* AppState::sorted_data over the given fields.
SortedData(commit_data, filter, column, direction) ==
    LET filtered == FilteredData(commit_data, filter)
        cmp == [p \in Range(filtered) \X Range(filtered) |->
                   IF direction = "Ascending"
                   THEN SortComparison(p[1], p[2], column)
                   ELSE 0 - SortComparison(p[1], p[2], column)]
    IN StableSort(filtered, cmp)

\* AppState::filtered_data
filtered_data == FilteredData(repository_data.commit_data, filter_text)

\* AppState::sorted_data
sorted_data ==
    SortedData(repository_data.commit_data, filter_text, sort_column, sort_direction)

\* Variant of get_filtered_heatmap_data that never looks into the cache.
get_filtered_heatmap_data_global == repository_data.heatmap_data

\* AppState::get_filtered_heatmap_data
get_filtered_heatmap_data ==
    IF IsSome(selected_author) /\ Unwrap(selected_author) \in DOMAIN author_heatmap_data
    THEN author_heatmap_data[Unwrap(selected_author)]
    ELSE repository_data.heatmap_data

\* Variant of get_or_create_author_heatmap that keeps one entry only: the map
\* is cleared before a new heat map is inserted.
get_or_create_author_heatmap_clearing(cache, author_email) ==
    IF author_email \notin DOMAIN cache
    THEN IF author_email \in DOMAIN repository_data.author_timeline_data
         THEN Insert(EmptyMap, author_email,
                     create_from_timeline_data(
                         repository_data.author_timeline_data[author_email], current_year))
         ELSE Insert(EmptyMap, author_email, HeatMapNew)
    ELSE cache

\* AppState::get_or_create_author_heatmap: author_heatmap_data after the call.
get_or_create_author_heatmap(cache, author_email) ==
    IF author_email \notin DOMAIN cache
    THEN IF author_email \in DOMAIN repository_data.author_timeline_data
         THEN Insert(cache, author_email,
                     create_from_timeline_data(
                         repository_data.author_timeline_data[author_email], current_year))
         ELSE Insert(cache, author_email, HeatMapNew)
    ELSE cache

\* usize::saturating_sub
saturating_sub(a, b) == IF a >= b THEN a - b ELSE 0

-----------------------------------------------------------------------------
(* tui.rs: key codes                                                       *)

Esc == << "Esc" >>
Up == << "Up" >>
Down == << "Down" >>
Enter == << "Enter" >>
Backspace == << "Backspace" >>
Tab == << "Tab" >>
Char(c) == << "Char", c >>

SortColumns == {"Email", "Commits", "FirstCommit", "LastCommit", "DaysBetween"}
SortDirections == {"Ascending", "Descending"}

\* History of the keys of one search: '/' outside search mode (or with no
\* history) starts it, each character keyed in search mode extends it, Enter
\* in search mode keeps it for the state it leaves, any other key drops it.
Keyed(key) ==
    IF key = Char("/") /\ ~(show_search /\ IsSome(typed) /\ Len(Unwrap(typed)) < MaxFilterLen)
    THEN Some(<< >>)
    ELSE IF key[1] = "Char" /\ show_search /\ IsSome(typed) /\ Len(Unwrap(typed)) < MaxFilterLen
    THEN Some(Append(Unwrap(typed), key[2]))
    ELSE IF key = Enter /\ show_search
    THEN typed
    ELSE None

\* Variant of the call in which sorted_data() sorts commit_data in place: the
\* order of the view is left behind in the repository data.
Called_sorting_in_place(key, result) ==
    /\ pc = "tui"
    /\ ret
    /\ lastKey' = key
    /\ ret' = result
    /\ typed' = Keyed(key)
    /\ repository_data' =
           [repository_data EXCEPT
               !.commit_data = SortedData(repository_data.commit_data, << >>,
                                          sort_column, sort_direction)]
    /\ UNCHANGED << error_message, current_year >>
    /\ UNCHANGED aggFields
    /\ UNCHANGED mainFields

\* run_tui calls handle_key_event until it returns false: the call with `key`
\* returns `result`.
Called(key, result) ==
    /\ pc = "tui"
    /\ ret
    /\ lastKey' = key
    /\ ret' = result
    /\ typed' = Keyed(key)
    /\ UNCHANGED << repository_data, error_message, current_year >>
    /\ UNCHANGED aggFields
    /\ UNCHANGED mainFields

-----------------------------------------------------------------------------
(* tui.rs: AppState::handle_key_event, one action per match arm            *)

\* Variant of the quit arm placed behind the search-mode test: in search mode
\* 'q' is text.
KeyQuit_after_search ==
    \E key \in {Char("q"), Esc} :
        IF key = Char("q") /\ show_search
        THEN /\ Len(filter_text) < MaxFilterLen
             /\ Called(key, TRUE)
             /\ filter_text' = Append(filter_text, "q")
             /\ UNCHANGED << selected_row, sort_column, sort_direction,
                             show_search, selected_author, author_heatmap_data >>
        ELSE /\ Called(key, FALSE)
             /\ UNCHANGED << selected_row, sort_column, sort_direction, filter_text,
                             show_search, selected_author, author_heatmap_data >>

\* KeyCode::Char('q') | KeyCode::Esc => return false
KeyQuit ==
    \E key \in {Char("q"), Esc} :
        /\ Called(key, FALSE)
        /\ UNCHANGED << selected_row, sort_column, sort_direction, filter_text,
                        show_search, selected_author, author_heatmap_data >>

\* KeyCode::Up
KeyUp ==
    /\ Called(Up, TRUE)
    /\ selected_row' = IF selected_row > 0 THEN selected_row - 1 ELSE selected_row
    /\ UNCHANGED << sort_column, sort_direction, filter_text,
                    show_search, selected_author, author_heatmap_data >>

\* Variant of the Down arm whose limit is the number of authors, not the
\* index of the last row.
KeyDown_to_len ==
    LET max_row == Len(repository_data.commit_data) IN
    /\ Called(Down, TRUE)
    /\ selected_row' = IF selected_row < max_row THEN selected_row + 1 ELSE selected_row
    /\ UNCHANGED << sort_column, sort_direction, filter_text,
                    show_search, selected_author, author_heatmap_data >>

\* KeyCode::Down
KeyDown ==
    LET max_row == saturating_sub(Len(sorted_data), 1) IN
    /\ Called(Down, TRUE)
    /\ selected_row' = IF selected_row < max_row THEN selected_row + 1 ELSE selected_row
    /\ UNCHANGED << sort_column, sort_direction, filter_text,
                    show_search, selected_author, author_heatmap_data >>

\* Variant of the '/' arm that clears the filter only when it opens the search.
KeySlash_keeping ==
    /\ Called(Char("/"), TRUE)
    /\ show_search' = TRUE
    /\ filter_text' = IF show_search THEN filter_text ELSE << >>
    /\ UNCHANGED << selected_row, sort_column, sort_direction,
                    selected_author, author_heatmap_data >>

\* KeyCode::Char('/')
KeySlash ==
    /\ Called(Char("/"), TRUE)
    /\ show_search' = TRUE
    /\ filter_text' = << >>
    /\ UNCHANGED << selected_row, sort_column, sort_direction,
                    selected_author, author_heatmap_data >>

\* Variant of the toggle that never deselects.
toggle_selection_always(current, email) == Some(email)

\* The match on selected_author in the Enter arm: the selection after the
\* toggle on the row whose email is given.
toggle_selection(current, email) ==
    IF current = Some(email) THEN None ELSE Some(email)

\* Variant of the Enter arm that toggles the selection without the call of
\* get_or_create_author_heatmap.
KeyEnter_without_cache ==
    /\ Called(Enter, TRUE)
    /\ IF show_search
       THEN /\ show_search' = FALSE
            /\ UNCHANGED selected_author
       ELSE /\ UNCHANGED show_search
            /\ IF selected_row + 1 \in DOMAIN sorted_data
               THEN selected_author' =
                        toggle_selection(selected_author,
                                         sorted_data[selected_row + 1].email)
               ELSE UNCHANGED selected_author
    /\ UNCHANGED << selected_row, sort_column, sort_direction, filter_text,
                    author_heatmap_data >>

\* Variant of the Enter arm that drops the selection when there is no row at
\* selected_row.
KeyEnter_deselecting ==
    /\ Called(Enter, TRUE)
    /\ IF show_search
       THEN /\ show_search' = FALSE
            /\ UNCHANGED << selected_author, author_heatmap_data >>
       ELSE /\ UNCHANGED show_search
            /\ IF selected_row + 1 \in DOMAIN sorted_data
               THEN LET selected_data == sorted_data[selected_row + 1] IN
                    /\ selected_author' = toggle_selection(selected_author, selected_data.email)
                    /\ author_heatmap_data' =
                           IF selected_author = Some(selected_data.email)
                           THEN author_heatmap_data
                           ELSE get_or_create_author_heatmap(author_heatmap_data,
                                                             selected_data.email)
               ELSE /\ selected_author' = None
                    /\ UNCHANGED author_heatmap_data
    /\ UNCHANGED << selected_row, sort_column, sort_direction, filter_text >>

\* KeyCode::Enter
KeyEnter ==
    /\ Called(Enter, TRUE)
    /\ IF show_search
       THEN /\ show_search' = FALSE
            /\ UNCHANGED << selected_author, author_heatmap_data >>
       ELSE /\ UNCHANGED show_search
            /\ IF selected_row + 1 \in DOMAIN sorted_data
               THEN LET selected_data == sorted_data[selected_row + 1] IN
                    /\ selected_author' = toggle_selection(selected_author, selected_data.email)
                    /\ author_heatmap_data' =
                           IF selected_author = Some(selected_data.email)
                           THEN author_heatmap_data
                           ELSE get_or_create_author_heatmap(author_heatmap_data,
                                                             selected_data.email)
               ELSE UNCHANGED << selected_author, author_heatmap_data >>
    /\ UNCHANGED << selected_row, sort_column, sort_direction, filter_text >>

\* String::pop
pop(s) == IF s = << >> THEN s ELSE SubSeq(s, 1, Len(s) - 1)

\* Variant of the Backspace arm without the search-mode test.
KeyBackspace_any_mode ==
    /\ Called(Backspace, TRUE)
    /\ filter_text' = pop(filter_text)
    /\ UNCHANGED << selected_row, sort_column, sort_direction,
                    show_search, selected_author, author_heatmap_data >>

\* KeyCode::Backspace
KeyBackspace ==
    /\ Called(Backspace, TRUE)
    /\ filter_text' = IF show_search THEN pop(filter_text) ELSE filter_text
    /\ UNCHANGED << selected_row, sort_column, sort_direction,
                    show_search, selected_author, author_heatmap_data >>

\* Variant of the digit arms with the columns of '4' and '5' exchanged.
DigitColumn_swapped(c) ==
    CASE c = "1" -> "Email"
      [] c = "2" -> "Commits"
      [] c = "3" -> "FirstCommit"
      [] c = "4" -> "DaysBetween"
      [] c = "5" -> "LastCommit"

\* The sort column a digit key selects outside search mode.
DigitColumn(c) ==
    CASE c = "1" -> "Email"
      [] c = "2" -> "Commits"
      [] c = "3" -> "FirstCommit"
      [] c = "4" -> "LastCommit"
      [] c = "5" -> "DaysBetween"

\* Variant of the Char arm whose 'r' | 'R' branch resets selected_row as the
\* digit branches do.
KeyChar_reverse_resets_row ==
    \E c \in Chars \ {"q", "/"} :
        /\ show_search => Len(filter_text) < MaxFilterLen
        /\ Called(Char(c), TRUE)
        /\ IF show_search
           THEN /\ filter_text' = Append(filter_text, c)
                /\ UNCHANGED << selected_row, sort_column, sort_direction >>
           ELSE /\ UNCHANGED filter_text
                /\ IF c \in {"1", "2", "3", "4", "5"}
                   THEN /\ sort_column' = DigitColumn(c)
                        /\ selected_row' = 0
                        /\ UNCHANGED sort_direction
                   ELSE /\ sort_direction' = IF sort_direction = "Ascending"
                                             THEN "Descending" ELSE "Ascending"
                        /\ selected_row' = 0
                        /\ UNCHANGED sort_column
        /\ UNCHANGED << show_search, selected_author, author_heatmap_data >>

\* KeyCode::Char(c), reached by every character but 'q' and '/'
KeyChar ==
    \E c \in Chars \ {"q", "/"} :
        /\ show_search => Len(filter_text) < MaxFilterLen
        /\ Called(Char(c), TRUE)
        /\ IF show_search
           THEN /\ filter_text' = Append(filter_text, c)
                /\ UNCHANGED << selected_row, sort_column, sort_direction >>
           ELSE /\ UNCHANGED filter_text
                /\ IF c \in {"1", "2", "3", "4", "5"}
                   THEN /\ sort_column' = DigitColumn(c)
                        /\ selected_row' = 0
                        /\ UNCHANGED sort_direction
                   ELSE IF c \in {"r", "R"}
                   THEN /\ sort_direction' = IF sort_direction = "Ascending"
                                             THEN "Descending" ELSE "Ascending"
                        /\ UNCHANGED << selected_row, sort_column >>
                   ELSE UNCHANGED << selected_row, sort_column, sort_direction >>
        /\ UNCHANGED << show_search, selected_author, author_heatmap_data >>

\* _ => {}
KeyOther ==
    /\ Called(Tab, TRUE)
    /\ UNCHANGED << selected_row, sort_column, sort_direction, filter_text,
                    show_search, selected_author, author_heatmap_data >>

-----------------------------------------------------------------------------
(* The session: a repository aggregated once, then keys until one quits.   *)

r1 == << "r", "1" >>
Rq == << "R", "q" >>

\* The commit walk of the modelled repository, newest first.  Both authors
\* made their first commit on the same day.
Revwalk ==
    << Commit(Some(r1), Some(Date(2024, 2, 29))),
       Commit(Some(Rq), Some(Date(2023, 3, 1))),
       Commit(Some(r1), Some(Date(2023, 1, 1))),
       Commit(Some(r1), Some(Date(2023, 1, 1))),
       Commit(Some(Rq), Some(Date(2023, 1, 1))) >>

\* The modelled sessions: the whole history, viewed in a year without a 29th
\* of February; and --max-commits 0 (no author at all), viewed in a leap year.
Sessions ==
    { [config |-> RepositoryConfig(None, None, None), year |-> 2023],
      [config |-> RepositoryConfig(Some(0), None, None), year |-> 2024] }

\* AppState::new
Init ==
    /\ \E session \in Sessions :
           /\ current_year = session.year
           /\ run_config = session.config
           /\ repository_data \in RepositoryDatas(Revwalk, session.config, session.year)
    /\ walk = Revwalk
    /\ walk_rest = << >>
    /\ commit_rows = << >>
    /\ processed = 0
    /\ pc = "tui"
    /\ selected_row = 0
    /\ sort_column = "FirstCommit"
    /\ sort_direction = "Ascending"
    /\ filter_text = << >>
    /\ show_search = FALSE
    /\ error_message = None
    /\ selected_author = None
    /\ author_heatmap_data = EmptyMap
    /\ lastKey = << >>
    /\ ret = TRUE
    /\ typed = None
    /\ terminal = [raw_mode |-> TRUE, alternate_screen |-> TRUE]
    /\ tui_pc = "read"
    /\ event = ""
    /\ reported = 0
    /\ exit_code = None

\* The keys of a session whose draws and reads succeed: run_tui stays in its
\* loop.
Next ==
    \/ KeyQuit /\ UNCHANGED tuiFields
    \/ KeyUp /\ UNCHANGED tuiFields
    \/ KeyDown /\ UNCHANGED tuiFields
    \/ KeySlash /\ UNCHANGED tuiFields
    \/ KeyEnter /\ UNCHANGED tuiFields
    \/ KeyBackspace /\ UNCHANGED tuiFields
    \/ KeyChar /\ UNCHANGED tuiFields
    \/ KeyOther /\ UNCHANGED tuiFields

Spec == Init /\ [][Next]_vars

-----------------------------------------------------------------------------
(* Claims                                                                  *)

Emails == { repository_data.commit_data[i].email : i \in DOMAIN repository_data.commit_data }

\* C1: in every reachable state selected_row is a valid index into
\* sorted_data(), or 0 when that view is empty.
C1_SelectedRowValid ==
    IF sorted_data = << >>
    THEN selected_row = 0
    ELSE selected_row \in 0..(Len(sorted_data) - 1)

\* C2: outside search mode, with a row under selected_row, Enter deselects
\* when that row's email is the selected author, and otherwise selects it and
\* leaves it with an entry in author_heatmap_data; Enter returns true and
\* keeps sort, filter, search mode and selected_row.
C2_EnterToggles ==
    [][ (lastKey' = Enter /\ ~show_search /\ selected_row + 1 \in DOMAIN sorted_data) =>
          LET id == sorted_data[selected_row + 1].email IN
          /\ selected_author = Some(id) => selected_author' = None
          /\ selected_author # Some(id) =>
                 /\ selected_author' = Some(id)
                 /\ id \in DOMAIN author_heatmap_data'
          /\ ret' = TRUE
          /\ UNCHANGED << sort_column, sort_direction, filter_text, show_search, selected_row >>
      ]_vars

\* An author was selected by Enter after another one had been.
C2_Witness ==
    /\ lastKey = Enter
    /\ ~show_search
    /\ IsSome(selected_author)
    /\ Cardinality(DOMAIN author_heatmap_data) = 2

\* C3: no key event changes or removes an entry of author_heatmap_data, and
\* get_or_create_author_heatmap leaves the map as it is for an email already
\* in it, so a second call right after a first returns the same heat map.
C3_CacheBuildOnce ==
    [][ /\ \A id \in DOMAIN author_heatmap_data :
               /\ id \in DOMAIN author_heatmap_data'
               /\ author_heatmap_data'[id] = author_heatmap_data[id]
        /\ lastKey' = Enter =>
               \A id \in Emails :
                   LET once == get_or_create_author_heatmap(author_heatmap_data', id) IN
                   /\ id \in DOMAIN once
                   /\ id \in DOMAIN author_heatmap_data' => once = author_heatmap_data'
                   /\ get_or_create_author_heatmap(once, id) = once
      ]_vars

\* Both authors' heat maps are cached, the selection was dropped again, and
\* the view has been re-sorted and filtered since.
C3_Witness ==
    /\ Cardinality(DOMAIN author_heatmap_data) = 2
    /\ selected_author = None
    /\ sort_direction = "Descending"
    /\ filter_text # << >>

\* C4: in search mode every character key appends its character to
\* filter_text and keeps sort_column, sort_direction and search mode.
C4_EveryCharAppends ==
    [][ \A c \in Chars :
          (show_search /\ lastKey' = Char(c)) =>
              /\ filter_text' = Append(filter_text, c)
              /\ UNCHANGED << sort_column, sort_direction, show_search >>
      ]_vars

\* C5: after Up or Down selected_row lies within the view (0 if it is empty);
\* Up decreases it by one unless it is 0, Down increases it by one unless it
\* is the last row.
C5_UpDownWithinView ==
    [][ lastKey' \in {Up, Down} =>
          /\ IF sorted_data = << >>
             THEN selected_row' = 0
             ELSE selected_row' \in 0..(Len(sorted_data) - 1)
          /\ lastKey' = Up =>
                 selected_row' = IF selected_row = 0 THEN 0 ELSE selected_row - 1
          /\ lastKey' = Down =>
                 selected_row' = IF selected_row = saturating_sub(Len(sorted_data), 1)
                                 THEN selected_row ELSE selected_row + 1
      ]_vars

\* C6: 'q' and Esc return false and leave every field of AppState unchanged,
\* in search mode and outside it.
C6_QuitChangesNothing ==
    [][ lastKey' \in {Char("q"), Esc} =>
          /\ ret' = FALSE
          /\ UNCHANGED appFields
      ]_vars

\* 'q' ended a session that was in search mode with a filter typed.
C6_Witness ==
    /\ lastKey = Char("q")
    /\ ret = FALSE
    /\ show_search
    /\ filter_text # << >>

\* C7: '/' turns search mode on and empties filter_text, returns true, and
\* keeps selected_row, sort, selected_author and the cache.
C7_SlashOpensSearch ==
    [][ lastKey' = Char("/") =>
          /\ show_search' = TRUE
          /\ filter_text' = << >>
          /\ ret' = TRUE
          /\ UNCHANGED << selected_row, sort_column, sort_direction,
                          selected_author, author_heatmap_data >>
      ]_vars

\* '/' was keyed while the search was open and characters had been typed.
C7_Witness ==
    /\ lastKey = Char("/")
    /\ show_search
    /\ filter_text = << >>
    /\ IsSome(typed)
    /\ Len(Unwrap(typed)) = 2
    /\ Unwrap(typed)[1] # "/"

\* C8: after '/', the characters s and Enter, search mode is off,
\* filter_text is s and filtered_data() holds exactly the summaries whose
\* email contains s without regard to case.
C8_SearchKeepsTyped ==
    (lastKey = Enter /\ IsSome(typed)) =>
        /\ ~show_search
        /\ filter_text = Unwrap(typed)
        /\ \A i \in DOMAIN repository_data.commit_data :
               LET data == repository_data.commit_data[i] IN
               (\E j \in DOMAIN filtered_data : filtered_data[j] = data)
                   <=> contains(to_lowercase(data.email), to_lowercase(Unwrap(typed)))

\* C9: Backspace returns true; in search mode it removes the last character
\* of filter_text (none when it is empty) and nothing else; outside search
\* mode it changes nothing.
C9_Backspace ==
    [][ lastKey' = Backspace =>
          /\ ret' = TRUE
          /\ show_search =>
                 /\ filter_text = << >> => filter_text' = << >>
                 /\ filter_text # << >> =>
                        /\ Len(filter_text') = Len(filter_text) - 1
                        /\ \A i \in DOMAIN filter_text' : filter_text'[i] = filter_text[i]
          /\ ~show_search => filter_text' = filter_text
          /\ UNCHANGED << repository_data, selected_row, sort_column, sort_direction,
                          show_search, error_message, selected_author, author_heatmap_data >>
      ]_vars

\* Backspace took the second of two typed characters away.
C9_Witness ==
    /\ lastKey = Backspace
    /\ show_search
    /\ Len(filter_text) = 1

\* C10: outside search mode '1'..'5' select Email, Commits, FirstCommit,
\* LastCommit, DaysBetween and reset selected_row to 0, keeping
\* sort_direction, filter_text, selected_author and the cache; in search mode
\* they leave sort_column alone.
C10_DigitsSort ==
    [][ \A c \in {"1", "2", "3", "4", "5"} :
          lastKey' = Char(c) =>
              IF show_search
              THEN sort_column' = sort_column
              ELSE /\ c = "1" => sort_column' = "Email"
                   /\ c = "2" => sort_column' = "Commits"
                   /\ c = "3" => sort_column' = "FirstCommit"
                   /\ c = "4" => sort_column' = "LastCommit"
                   /\ c = "5" => sort_column' = "DaysBetween"
                   /\ selected_row' = 0
                   /\ UNCHANGED << sort_direction, filter_text,
                                   selected_author, author_heatmap_data >>
      ]_vars

\* '5' was keyed outside search mode, with a filter and a selection in place.
C10_Witness ==
    /\ lastKey = Char("5")
    /\ ~show_search
    /\ sort_column = "DaysBetween"
    /\ selected_row = 0
    /\ filter_text # << >>
    /\ IsSome(selected_author)

\* C11: outside search mode 'r' and 'R' turn Ascending into Descending and
\* Descending into Ascending, return true, and keep selected_row, sort_column,
\* filter_text, selected_author and the cache; a press that follows a press
\* therefore gives back the direction the first one found.
C11_ReverseFlips ==
    [][ (lastKey' \in {Char("r"), Char("R")} /\ ~show_search) =>
          /\ sort_direction = "Ascending" => sort_direction' = "Descending"
          /\ sort_direction = "Descending" => sort_direction' = "Ascending"
          /\ (lastKey \in {Char("r"), Char("R")} /\ sort_direction = "Descending")
                 => sort_direction' = "Ascending"
          /\ (lastKey \in {Char("r"), Char("R")} /\ sort_direction = "Ascending")
                 => sort_direction' = "Descending"
          /\ ret' = TRUE
          /\ UNCHANGED << selected_row, sort_column, filter_text, show_search,
                          selected_author, author_heatmap_data >>
      ]_vars

\* 'R' was keyed outside search mode on the second row of a filtered view
\* with an author selected, and the direction is Ascending again.
C11_Witness ==
    /\ lastKey = Char("R")
    /\ ~show_search
    /\ sort_direction = "Ascending"
    /\ selected_row = 1
    /\ filter_text # << >>
    /\ IsSome(selected_author)

-----------------------------------------------------------------------------
(* The view over any repository data.  AppState::new takes whatever        *)
(* RepositoryData it is given and every field of AppState is public: the   *)
(* summaries, the filter, the sort and the selection are drawn from        *)
(* bounded sets, and the keys that read sorted_data() are applied.         *)

\* Most summaries in commit_data.
MaxAuthors == 3

\* The summaries to draw from: two tie on commits and on first_commit, two
\* tie on last_commit, one email is a prefix of another, upper case sorts
\* before lower case, and one summary has its last_commit before its
\* first_commit.
ViewSummaries ==
    { CommitData(r1, 2, Date(2023, 1, 1), Date(2024, 2, 29)),
      CommitData(Rq, 2, Date(2023, 1, 1), Date(2023, 3, 1)),
      CommitData(<< "R" >>, 1, Date(2023, 3, 1), Date(2023, 1, 1)),
      CommitData(<< "5", "r" >>, 3, Date(2024, 2, 29), Date(2024, 2, 29)) }

\* commit_data: up to MaxAuthors summaries of different authors, in any order.
ViewDatas ==
    { cd \in UNION { [1..n -> ViewSummaries] : n \in 0..MaxAuthors } :
        \A i, j \in DOMAIN cd : i # j => cd[i].email # cd[j].email }

\* filter_text: empty, matching by case only, matching one email, matching none.
ViewFilters == { << >>, << "R" >>, << "r" >>, << "r", "1" >>, << "2" >> }

\* A RepositoryData around the summaries, as the tests build it: a timeline
\* for one author only, and a global heat map of its own.
ViewRepositoryData(commit_data) ==
    [commit_data |-> commit_data,
     heatmap_data |-> add_commits(add_commits(HeatMapNew, Date(2023, 1, 1), 3),
                                  Date(2023, 3, 1), 1),
     author_timeline_data |->
         Insert(EmptyMap, r1,
                add_commit(add_commit(TimelineDefault, Date(2023, 1, 1), 1),
                           Date(2024, 2, 29), 1))]

\* An AppState over drawn repository data, with a filter, a sort and
\* possibly a selection set.
InitView ==
    /\ repository_data \in { ViewRepositoryData(cd) : cd \in ViewDatas }
    /\ filter_text \in ViewFilters
    /\ sort_column \in SortColumns
    /\ sort_direction \in SortDirections
    /\ selected_author \in {None, Some(r1)}
    /\ selected_row = 0
    /\ show_search = FALSE
    /\ error_message = None
    /\ author_heatmap_data = EmptyMap
    /\ current_year = 2023
    /\ lastKey = << >>
    /\ ret = TRUE
    /\ typed = None
    /\ walk = << >>
    /\ run_config = RepositoryConfig(None, None, None)
    /\ walk_rest = << >>
    /\ commit_rows = << >>
    /\ processed = 0
    /\ terminal = Cooked
    /\ tui_pc = "enable_raw_mode"
    /\ event = ""
    /\ reported = 0
    /\ exit_code = None
    /\ pc = "tui"

\* The keys that read sorted_data().
NextView ==
    \/ KeyUp /\ UNCHANGED tuiFields
    \/ KeyDown /\ UNCHANGED tuiFields
    \/ KeyEnter /\ UNCHANGED tuiFields

SpecView == InitView /\ [][NextView]_vars

-----------------------------------------------------------------------------
(* Claims on the view functions                                            *)

\* Two characters are the same letter, the case left aside.
SameLetter(a, b) == a = b \/ {a, b} = {"r", "R"}

\* The filter occurs in the email as a substring, the case left aside.
Matches(email, filter) ==
    \E k \in 0..(Len(email) - Len(filter)) :
        \A j \in 1..Len(filter) : SameLetter(email[k + j], filter[j])

\* The place of a summary in commit_data (emails are unique there).
PlaceOf(data) ==
    CHOOSE i \in DOMAIN repository_data.commit_data : repository_data.commit_data[i] = data

\* C12: filtered_data() holds exactly the summaries of commit_data whose
\* email contains filter_text as a substring without regard to case, each
\* once and in the order of commit_data; all of them when filter_text is
\* empty, none when nothing matches.
C12_FilteredData ==
    LET cd == repository_data.commit_data
        f == filtered_data
        matching == { i \in DOMAIN cd : Matches(cd[i].email, filter_text) }
    IN /\ Len(f) = Cardinality(matching)
       /\ \A i \in matching : \E j \in DOMAIN f : f[j] = cd[i]
       /\ \A j \in DOMAIN f : \E i \in matching : f[j] = cd[i]
       /\ \A j, k \in DOMAIN f : j < k => PlaceOf(f[j]) < PlaceOf(f[k])
       /\ filter_text = << >> => f = cd
       /\ matching = {} => f = << >>

\* Enter selected a row of a view that the filter "R" narrowed to three
\* summaries, two of which match by their lower-case 'r' only.
C12_Witness ==
    /\ filter_text = << "R" >>
    /\ Len(repository_data.commit_data) = 3
    /\ filtered_data = repository_data.commit_data
    /\ \E j \in DOMAIN filtered_data : filtered_data[j].email = r1
    /\ \E j \in DOMAIN filtered_data : filtered_data[j].email = << "5", "r" >>
    /\ lastKey = Enter
    /\ selected_author = Some(<< "5", "r" >>)

\* Sequence reversed.
Reverse(seq) == [i \in 1..Len(seq) |-> seq[Len(seq) + 1 - i]]

\* C13: sorted_data() under Descending is the exact reverse of sorted_data()
\* under Ascending, for the filter and the column of the state, ties on the
\* sort key included.
C13_DescendingIsReverse ==
    SortedData(repository_data.commit_data, filter_text, sort_column, "Descending")
        = Reverse(SortedData(repository_data.commit_data, filter_text,
                             sort_column, "Ascending"))

\* a's email is not behind b's in byte order (a proper prefix is before).
LexLeq(a, b) ==
    \/ /\ Len(a) <= Len(b)
       /\ \A i \in 1..Len(a) : a[i] = b[i]
    \/ \E k \in 1..Len(a) :
           /\ k <= Len(b)
           /\ \A i \in 1..(k - 1) : a[i] = b[i]
           /\ CharCode(a[k]) < CharCode(b[k])

\* The number a summary is ordered by under a column other than Email.
SortKey(data, column) ==
    CASE column = "Commits" -> data.commits
      [] column = "FirstCommit" -> DaysFromEpoch(data.first_commit)
      [] column = "LastCommit" -> DaysFromEpoch(data.last_commit)
      [] column = "DaysBetween" ->
             DaysFromEpoch(data.last_commit) - DaysFromEpoch(data.first_commit)

\* a's key under the column is not greater than b's.
KeyLeq(a, b, column) ==
    IF column = "Email" THEN LexLeq(a.email, b.email)
    ELSE SortKey(a, column) <= SortKey(b, column)

\* C14: sorted_data() is a permutation of filtered_data(); under Ascending
\* its keys never decrease (email by bytes, commits by number, first and last
\* commit by date, days_between = last - first in days, negative when last
\* is before first); summaries with equal keys keep the order they have in
\* commit_data.
C14_SortedData ==
    LET f == filtered_data
        sd == sorted_data
    IN /\ Len(sd) = Len(f)
       /\ \A j \in DOMAIN f : \E i \in DOMAIN sd : sd[i] = f[j]
       /\ \A i \in DOMAIN sd : \E j \in DOMAIN f : sd[i] = f[j]
       /\ sort_direction = "Ascending" =>
              \A i, j \in DOMAIN sd : i < j => KeyLeq(sd[i], sd[j], sort_column)
       /\ \A i, j \in DOMAIN sd :
              (i < j /\ KeyLeq(sd[i], sd[j], sort_column) /\ KeyLeq(sd[j], sd[i], sort_column))
                  => PlaceOf(sd[i]) < PlaceOf(sd[j])

\* Down moved over a view sorted by DaysBetween whose first row spans -59
\* days, before the rows of 0 and of 424 days.
C14_Witness ==
    /\ sort_column = "DaysBetween"
    /\ sort_direction = "Ascending"
    /\ filter_text = << >>
    /\ Len(sorted_data) = 3
    /\ sorted_data # repository_data.commit_data
    /\ days_between(sorted_data[1]) = 0 - 59
    /\ days_between(sorted_data[2]) = 0
    /\ days_between(sorted_data[3]) = 424
    /\ lastKey = Down
    /\ selected_row = 2

\* C15: get_filtered_heatmap_data() is the cached heat map of selected_author
\* when an author is selected and author_heatmap_data has an entry for it,
\* and the global heat map when no author is selected or the selected one has
\* no entry.
C15_FilteredHeatmap ==
    /\ (IsSome(selected_author) /\ Unwrap(selected_author) \in DOMAIN author_heatmap_data)
           => get_filtered_heatmap_data = author_heatmap_data[Unwrap(selected_author)]
    /\ selected_author = None
           => get_filtered_heatmap_data = repository_data.heatmap_data
    /\ (IsSome(selected_author) /\ Unwrap(selected_author) \notin DOMAIN author_heatmap_data)
           => get_filtered_heatmap_data = repository_data.heatmap_data

\* Enter selected r1 with another author's heat map already cached: the heat
\* map shown is r1's own (two days), not the global one.
C15_Witness ==
    /\ lastKey = Enter
    /\ selected_author = Some(r1)
    /\ Cardinality(DOMAIN author_heatmap_data) = 2
    /\ get_filtered_heatmap_data # repository_data.heatmap_data
    /\ DOMAIN get_filtered_heatmap_data.commits_by_date = {Date(2023, 1, 1), Date(2024, 2, 29)}

-----------------------------------------------------------------------------
(* repository.rs: the aggregation, one action per way through the body of  *)
(* the revwalk loop of collect_commit_info_polars, then the grouping.      *)

\* Longest commit walk.
MaxWalkLen == 3

\* Largest --max-commits.
MaxCap == 2

\* Variant of the cap test that lets one more commit through.
cap_reached_one_late(cfg, n) ==
    IsSome(cfg.max_commits) /\ n > Unwrap(cfg.max_commits)

\* if let Some(max_commits) = config.max_commits { if commits_processed >= max_commits
cap_reached(cfg, n) ==
    IsSome(cfg.max_commits) /\ n >= Unwrap(cfg.max_commits)

\* Variant of the since test that also rejects the since date itself.
before_since_or_on(cfg, commit_date) ==
    IsSome(cfg.since_date) /\ ~DateLt(Unwrap(cfg.since_date), commit_date)

\* if let Some(since_date) = config.since_date { if commit_date < since_date
before_since(cfg, commit_date) ==
    IsSome(cfg.since_date) /\ DateLt(commit_date, Unwrap(cfg.since_date))

\* if let Some(until_date) = config.until_date { if commit_date > until_date
after_until(cfg, commit_date) ==
    IsSome(cfg.until_date) /\ DateLt(Unwrap(cfg.until_date), commit_date)

\* Both `if let` of the loop body succeed: the author has an email and the
\* commit time is a single UTC time.
resolvable(commit) == IsSome(commit.email) /\ IsSome(commit.date)

\* One pass through the loop body that ends with the next commit: the commit
\* is taken off the walk, new_rows and new_processed are the vectors and the
\* counter behind it.
Walked(new_rows, new_processed) ==
    /\ walk_rest' = Tail(walk_rest)
    /\ commit_rows' = new_rows
    /\ processed' = new_processed
    /\ UNCHANGED << pc, walk, run_config, current_year, lastKey, ret, typed >>
    /\ UNCHANGED appFields
    /\ UNCHANGED tuiFields
    /\ UNCHANGED mainFields

\* The loop is over: group_by comes next.
LoopOver ==
    /\ pc' = "group"
    /\ UNCHANGED << walk_rest, commit_rows, processed >>
    /\ UNCHANGED << walk, run_config, current_year, lastKey, ret, typed >>
    /\ UNCHANGED appFields
    /\ UNCHANGED tuiFields
    /\ UNCHANGED mainFields

\* for commit_oid in revwalk: the walk has no commit left.
WalkEnd ==
    /\ pc = "walk"
    /\ walk_rest = << >>
    /\ LoopOver

\* commits_processed >= max_commits => break; the commit is not looked up.
WalkBreak ==
    /\ pc = "walk"
    /\ walk_rest # << >>
    /\ cap_reached(run_config, processed)
    /\ LoopOver

\* Variant of the skip of a commit without email or time that counts it.
WalkSkip_counting ==
    /\ pc = "walk"
    /\ walk_rest # << >>
    /\ ~cap_reached(run_config, processed)
    /\ ~resolvable(Head(walk_rest))
    /\ Walked(commit_rows, processed + 1)

\* The author's email is None, or the commit time is no single UTC time:
\* the body does nothing.
WalkSkip ==
    /\ pc = "walk"
    /\ walk_rest # << >>
    /\ ~cap_reached(run_config, processed)
    /\ ~resolvable(Head(walk_rest))
    /\ Walked(commit_rows, processed)

\* commit_date < since_date => continue
WalkBeforeSince ==
    /\ pc = "walk"
    /\ walk_rest # << >>
    /\ ~cap_reached(run_config, processed)
    /\ resolvable(Head(walk_rest))
    /\ before_since(run_config, Unwrap(Head(walk_rest).date))
    /\ Walked(commit_rows, processed)

\* commit_date > until_date => continue
WalkAfterUntil ==
    /\ pc = "walk"
    /\ walk_rest # << >>
    /\ ~cap_reached(run_config, processed)
    /\ resolvable(Head(walk_rest))
    /\ ~before_since(run_config, Unwrap(Head(walk_rest).date))
    /\ after_until(run_config, Unwrap(Head(walk_rest).date))
    /\ Walked(commit_rows, processed)

\* emails.push, dates.push, commits_processed += 1
WalkPush ==
    /\ pc = "walk"
    /\ walk_rest # << >>
    /\ ~cap_reached(run_config, processed)
    /\ resolvable(Head(walk_rest))
    /\ ~before_since(run_config, Unwrap(Head(walk_rest).date))
    /\ ~after_until(run_config, Unwrap(Head(walk_rest).date))
    /\ Walked(Append(commit_rows, [email |-> Unwrap(Head(walk_rest).email),
                                   date |-> Unwrap(Head(walk_rest).date)]),
              processed + 1)

\* What get_repository_data_with_config makes of the rows of the data frame:
\* both group_by, the two conversions, prepare_commit_data and
\* prepare_heatmap_data_from_map.
RepositoryDataOfRows(df, stats_order, year) ==
    LET author_timeline_data ==
            convert_timeline_df_to_timeline_data_map(SetToSeq(timeline_df(df)), EmptyMap)
    IN [commit_data |-> prepare_commit_data(convert_author_stats_to_commit_info(stats_order)),
        heatmap_data |-> prepare_heatmap_data_from_map(author_timeline_data, year),
        author_timeline_data |-> author_timeline_data]

\* The rest of get_repository_data_with_config, and AppState::new on what it
\* returns: the locals of collect_commit_info_polars are gone.
Group ==
    /\ pc = "group"
    /\ \E stats_order \in Orderings(author_stats(commit_rows)) :
           repository_data' = RepositoryDataOfRows(commit_rows, stats_order, current_year)
    /\ pc' = "tui"
    /\ walk_rest' = << >>
    /\ commit_rows' = << >>
    /\ processed' = 0
    /\ UNCHANGED << walk, run_config, current_year, lastKey, ret, typed >>
    /\ UNCHANGED << selected_row, sort_column, sort_direction, filter_text,
                    show_search, error_message, selected_author, author_heatmap_data >>
    /\ UNCHANGED tuiFields
    /\ UNCHANGED mainFields

\* Three days in a row, across the end of a month.
Day1 == Date(2023, 2, 28)
Day2 == Date(2023, 3, 1)
Day3 == Date(2023, 3, 2)

\* The commits a walk is made of: r1 on each of the days, Rq on the middle
\* one, a commit whose author has no email, a commit whose time is no date.
WalkCommits ==
    { Commit(Some(r1), Some(Day1)), Commit(Some(r1), Some(Day2)),
      Commit(Some(r1), Some(Day3)), Commit(Some(Rq), Some(Day2)),
      Commit(None, Some(Day2)), Commit(Some(r1), None) }

Walks == UNION { [1..n -> WalkCommits] : n \in 0..MaxWalkLen }

\* --max-commits absent or 0..MaxCap, --since absent or the middle day,
\* --until absent, the middle day or the day before it (with --since, a range
\* that holds no day).
Configs ==
    { RepositoryConfig(max_commits, since_date, until_date) :
        max_commits \in {None} \cup { Some(n) : n \in 0..MaxCap },
        since_date \in {None, Some(Day2)},
        until_date \in {None, Some(Day2), Some(Day1)} }

\* RepositoryData before get_repository_data_with_config has returned one.
NoData ==
    [commit_data |-> << >>, heatmap_data |-> HeatMapNew, author_timeline_data |-> EmptyMap]

\* The start of collect_commit_info_polars on some repository and configuration.
InitAgg ==
    /\ walk \in Walks
    /\ run_config \in Configs
    /\ walk_rest = walk
    /\ commit_rows = << >>
    /\ processed = 0
    /\ terminal = Cooked
    /\ tui_pc = "enable_raw_mode"
    /\ event = ""
    /\ reported = 0
    /\ exit_code = None
    /\ pc = "walk"
    /\ current_year = 2023
    /\ repository_data = NoData
    /\ selected_row = 0
    /\ sort_column = "FirstCommit"
    /\ sort_direction = "Ascending"
    /\ filter_text = << >>
    /\ show_search = FALSE
    /\ error_message = None
    /\ selected_author = None
    /\ author_heatmap_data = EmptyMap
    /\ lastKey = << >>
    /\ ret = TRUE
    /\ typed = None

NextAgg ==
    \/ WalkEnd
    \/ WalkBreak
    \/ WalkSkip
    \/ WalkBeforeSince
    \/ WalkAfterUntil
    \/ WalkPush
    \/ Group

SpecAgg == InitAgg /\ [][NextAgg]_vars

\* One pass through the body of the loop, or its end.
WalkStep ==
    \/ WalkEnd
    \/ WalkBreak
    \/ WalkSkip
    \/ WalkBeforeSince
    \/ WalkAfterUntil
    \/ WalkPush

\* The aggregation is one thread that runs on until it returns: the loop
\* takes its next step, and the step from the grouping to the returned data
\* is taken.
SpecAggLive ==
    /\ SpecAgg
    /\ WF_vars(WalkStep)
    /\ WF_pc(pc = "group" /\ pc' = "tui")

-----------------------------------------------------------------------------
(* Claims on the aggregation                                               *)

\* The day number of a date.
DayNo(date) == DaysFromEpoch(date)

\* The commit has an email and a date, and the date is not before since nor
\* after until where these are set.
Eligible(commit, cfg) ==
    /\ commit.email # None
    /\ commit.date # None
    /\ cfg.since_date # None => DayNo(cfg.since_date[1]) <= DayNo(commit.date[1])
    /\ cfg.until_date # None => DayNo(commit.date[1]) <= DayNo(cfg.until_date[1])

\* The places of the walk w whose commits are accepted: the eligible ones,
\* and under a cap of N only the first N of them.
AcceptedPlaces(w, cfg) ==
    { i \in DOMAIN w :
        /\ Eligible(w[i], cfg)
        /\ cfg.max_commits # None =>
               Cardinality({ j \in 1..(i - 1) : Eligible(w[j], cfg) }) < cfg.max_commits[1] }

\* The accepted places of one author.
AcceptedOf(w, cfg, email) ==
    { i \in AcceptedPlaces(w, cfg) : w[i].email = << email >> }

\* The walk with the commits at places k and k + 1 exchanged.
Swapped(w, k) ==
    [i \in DOMAIN w |-> IF i = k THEN w[k + 1] ELSE IF i = k + 1 THEN w[k] ELSE w[i]]

RECURSIVE SumCommits(_)
SumCommits(commit_data) ==
    IF commit_data = << >> THEN 0
    ELSE Head(commit_data).commits + SumCommits(Tail(commit_data))

RECURSIVE SumTimelines(_, _)
SumTimelines(timeline_data, emails) ==
    IF emails = {} THEN 0
    ELSE LET e == CHOOSE e \in emails : TRUE IN
         timeline_data[e].total_commits + SumTimelines(timeline_data, emails \ {e})

\* C16: the data returned has exactly one summary for each email among the
\* accepted commits, wherever in the walk they are; its commits is the number
\* of that author's accepted commits, its first_commit their earliest and its
\* last_commit their latest date.  Without a cap, a walk with two neighbours
\* exchanged gives the same summaries, timelines and heat map.
C16_OneSummaryPerAuthor ==
    pc = "tui" =>
        LET cd == repository_data.commit_data
            acc == AcceptedPlaces(walk, run_config)
        IN /\ \A i, j \in DOMAIN cd : i # j => cd[i].email # cd[j].email
           /\ { << cd[i].email >> : i \in DOMAIN cd } = { walk[k].email : k \in acc }
           /\ \A i \in DOMAIN cd :
                  LET mine == AcceptedOf(walk, run_config, cd[i].email) IN
                  /\ cd[i].commits = Cardinality(mine)
                  /\ \E k \in mine : walk[k].date = << cd[i].first_commit >>
                  /\ \E k \in mine : walk[k].date = << cd[i].last_commit >>
                  /\ \A k \in mine :
                         /\ DayNo(cd[i].first_commit) <= DayNo(walk[k].date[1])
                         /\ DayNo(walk[k].date[1]) <= DayNo(cd[i].last_commit)
           /\ run_config.max_commits = None =>
                  \A k \in 1..(Len(walk) - 1) :
                      \E other \in RepositoryDatas(Swapped(walk, k), run_config, current_year) :
                          /\ Range(other.commit_data) = Range(cd)
                          /\ other.author_timeline_data = repository_data.author_timeline_data
                          /\ other.heatmap_data = repository_data.heatmap_data

\* r1's commits lie on both sides of Rq's in the walk, its latest is the
\* oldest in the walk: one summary each, r1 with 2 commits from Day1 to Day3.
C16_Witness ==
    /\ pc = "tui"
    /\ walk = << Commit(Some(r1), Some(Day1)), Commit(Some(Rq), Some(Day2)),
                 Commit(Some(r1), Some(Day3)) >>
    /\ run_config = RepositoryConfig(None, None, None)
    /\ repository_data.commit_data =
           << CommitData(r1, 2, Day1, Day3), CommitData(Rq, 1, Day2, Day2) >>

\* C17: every summary returned has first_commit <= last_commit and
\* commits >= 1, whatever the configuration; an author none of whose commits
\* was accepted (all rejected by date, without email or time, or behind the
\* cap) has no summary and no timeline.
C17_SummariesWellFormed ==
    pc = "tui" =>
        LET cd == repository_data.commit_data IN
        /\ \A i \in DOMAIN cd :
               /\ DayNo(cd[i].first_commit) <= DayNo(cd[i].last_commit)
               /\ cd[i].commits >= 1
        /\ \A email \in {r1, Rq} :
               AcceptedOf(walk, run_config, email) = {} =>
                   /\ \A i \in DOMAIN cd : cd[i].email # email
                   /\ email \notin DOMAIN repository_data.author_timeline_data

\* Under --max-commits 2 r1's two commits are taken and Rq's, behind them,
\* is not: the only summary is r1's, from Day2 to Day3.
C17_Witness ==
    /\ pc = "tui"
    /\ walk = << Commit(Some(r1), Some(Day3)), Commit(Some(r1), Some(Day2)),
                 Commit(Some(Rq), Some(Day2)) >>
    /\ run_config = RepositoryConfig(Some(2), None, None)
    /\ repository_data.commit_data = << CommitData(r1, 2, Day2, Day3) >>

\* C18: a commit with email and time that the loop looks up is pushed iff
\* its date is neither before since nor after until (the bounds themselves
\* are accepted, the day before since and the day after until are not); a
\* commit rejected by its date leaves commits_processed as it is.
C18_DateFilterInclusive ==
    [][ (pc = "walk" /\ walk_rest # << >> /\ walk_rest' = Tail(walk_rest)
           /\ Head(walk_rest).email # None /\ Head(walk_rest).date # None) =>
          LET commit == Head(walk_rest)
              day == DayNo(commit.date[1])
              in_range ==
                  /\ run_config.since_date # None => DayNo(run_config.since_date[1]) <= day
                  /\ run_config.until_date # None => day <= DayNo(run_config.until_date[1])
          IN /\ in_range =>
                    /\ commit_rows' = Append(commit_rows,
                                             [email |-> commit.email[1], date |-> commit.date[1]])
                    /\ processed' = processed + 1
             /\ ~in_range =>
                    /\ commit_rows' = commit_rows
                    /\ processed' = processed
      ]_vars

\* With since = until = Day2 and --max-commits 1: the commit of the day
\* before and the one of the day after were passed over without using up the
\* cap, the commit of Day2 behind them was pushed.
C18_Witness ==
    /\ pc = "group"
    /\ walk = << Commit(Some(r1), Some(Day1)), Commit(Some(r1), Some(Day3)),
                 Commit(Some(r1), Some(Day2)) >>
    /\ run_config = RepositoryConfig(Some(1), Some(Day2), Some(Day2))
    /\ commit_rows = << [email |-> r1, date |-> Day2] >>
    /\ processed = 1

\* The commits of the walk that have email and date and pass the date
\* filter, as rows, in walk order.
RECURSIVE EligibleRows(_, _)
EligibleRows(w, cfg) ==
    IF w = << >> THEN << >>
    ELSE IF Eligible(Head(w), cfg)
    THEN << [email |-> Head(w).email[1], date |-> Head(w).date[1]] >> \o EligibleRows(Tail(w), cfg)
    ELSE EligibleRows(Tail(w), cfg)

\* C19: under --max-commits N the rows collected are the first N eligible
\* commits of the walk in walk order (all of them if there are fewer); the
\* loop stops at the commit behind the N-th one and looks up no further
\* commit; the commits of all summaries sum to at most N, to the number of
\* rows; N = 0 gives no summary; no error is set.
C19_Cap ==
    run_config.max_commits # None =>
        LET N == run_config.max_commits[1]
            eligible == EligibleRows(walk, run_config)
            first_n == SubSeq(eligible, 1, IF Len(eligible) < N THEN Len(eligible) ELSE N)
            looked_up == SubSeq(walk, 1, Len(walk) - Len(walk_rest))
        IN /\ pc \in {"walk", "group"} =>
                  /\ processed <= N
                  /\ processed = Len(commit_rows)
                  /\ commit_rows = SubSeq(first_n, 1, Len(commit_rows))
                  /\ (processed = N /\ N > 0) => Eligible(looked_up[Len(looked_up)], run_config)
                  /\ N = 0 => walk_rest = walk
           /\ pc = "group" => commit_rows = first_n
           /\ pc = "tui" =>
                  /\ SumCommits(repository_data.commit_data) = Len(first_n)
                  /\ SumCommits(repository_data.commit_data) <= N
                  /\ N = 0 => repository_data.commit_data = << >>
           /\ error_message = None

\* Under --max-commits 2 r1's Day1 commit and Rq's were taken; r1's Day3
\* commit behind them was not.
C19_Witness ==
    /\ pc = "tui"
    /\ walk = << Commit(Some(r1), Some(Day1)), Commit(Some(Rq), Some(Day2)),
                 Commit(Some(r1), Some(Day3)) >>
    /\ run_config = RepositoryConfig(Some(2), None, None)
    /\ Range(repository_data.commit_data) =
           { CommitData(r1, 1, Day1, Day1), CommitData(Rq, 1, Day2, Day2) }

\* C20: a commit without email or without time that the loop looks up adds
\* no row and leaves commits_processed as it is, and the loop goes on with
\* the commit behind it; the data returned counts, in its summaries and in
\* its timelines, the accepted commits only, and no error is set; the
\* aggregation does return its data.
C20_SkipUnresolvable ==
    /\ <>(pc = "tui")
    /\ [][ /\ (pc = "walk" /\ walk_rest # << >> /\ walk_rest' = Tail(walk_rest)
                 /\ (Head(walk_rest).email = None \/ Head(walk_rest).date = None)) =>
                  /\ commit_rows' = commit_rows
                  /\ processed' = processed
                  /\ pc' = "walk"
           /\ (pc = "group" /\ pc' = "tui") =>
                  /\ SumCommits(repository_data'.commit_data)
                         = Cardinality(AcceptedPlaces(walk, run_config))
                  /\ SumTimelines(repository_data'.author_timeline_data,
                                  DOMAIN repository_data'.author_timeline_data)
                         = Cardinality(AcceptedPlaces(walk, run_config))
                  /\ DOMAIN repository_data'.author_timeline_data
                         = { walk[k].email[1] : k \in AcceptedPlaces(walk, run_config) }
                  /\ error_message' = None
         ]_vars

\* Under --max-commits 1 a commit without email and one without time came
\* first: the commit behind them is the one counted.
C20_Witness ==
    /\ pc = "tui"
    /\ walk = << Commit(None, Some(Day2)), Commit(Some(r1), None),
                 Commit(Some(Rq), Some(Day2)) >>
    /\ run_config = RepositoryConfig(Some(1), None, None)
    /\ repository_data.commit_data = << CommitData(Rq, 1, Day2, Day2) >>
    /\ DOMAIN repository_data.author_timeline_data = {Rq}

-----------------------------------------------------------------------------
(* Timelines and their heat maps.  The per-author timelines are built row  *)
(* by row as convert_timeline_df_to_timeline_data_map builds them, with    *)
(* the date and the count of each row drawn from bounded sets; the global  *)
(* heat map and the per-author heat maps are then projected from them.     *)

\* Most commits in all timelines together.
MaxCommits == 4

\* Two days of one year that is no leap year, the 29th of February and the
\* day behind it, a day behind the far-future start of the range and a day
\* before its far-past end.
TimelineDates ==
    { Date(2023, 3, 1), Date(2023, 12, 31), Date(2024, 2, 29), Date(2024, 3, 1),
      Date(2099, 6, 1), Date(1899, 12, 31) }

\* The clock's year: a year without the 29th of February, and one with it.
ReferenceYears == { 2023, 2024 }

\* One pass of the loop of convert_timeline_df_to_timeline_data_map, on a
\* row whose date column is the date given.
TimelineAdd ==
    /\ pc = "rows"
    /\ \E email \in {r1, Rq}, date \in TimelineDates, commit_count \in 1..2 :
           LET timeline_map == repository_data.author_timeline_data
               timeline_data == IF email \in DOMAIN timeline_map
                                THEN timeline_map[email] ELSE TimelineDefault
           IN /\ SumTimelines(timeline_map, DOMAIN timeline_map) + commit_count <= MaxCommits
              /\ repository_data' =
                     [repository_data EXCEPT
                         !.author_timeline_data =
                             Insert(timeline_map, email,
                                    add_commit(timeline_data, date, commit_count))]
    /\ UNCHANGED << selected_row, sort_column, sort_direction, filter_text, show_search,
                    error_message, selected_author, author_heatmap_data >>
    /\ UNCHANGED << current_year, lastKey, ret, typed >>
    /\ UNCHANGED aggFields
    /\ UNCHANGED tuiFields
    /\ UNCHANGED mainFields

\* get_repository_data_with_config behind the conversions: the global heat
\* map of the timelines.
TimelineProject ==
    /\ pc = "rows"
    /\ pc' = "heat"
    /\ repository_data' =
           [repository_data EXCEPT
               !.heatmap_data =
                   prepare_heatmap_data_from_map(repository_data.author_timeline_data,
                                                 current_year)]
    /\ UNCHANGED << selected_row, sort_column, sort_direction, filter_text, show_search,
                    error_message, selected_author, author_heatmap_data >>
    /\ UNCHANGED << current_year, lastKey, ret, typed >>
    /\ UNCHANGED << walk, run_config, walk_rest, commit_rows, processed >>
    /\ UNCHANGED tuiFields
    /\ UNCHANGED mainFields

\* AppState::get_or_create_author_heatmap for an author with a timeline.
AuthorHeatmap ==
    /\ pc = "heat"
    /\ \E author_email \in DOMAIN repository_data.author_timeline_data :
           author_heatmap_data' =
               get_or_create_author_heatmap(author_heatmap_data, author_email)
    /\ UNCHANGED << repository_data, selected_row, sort_column, sort_direction,
                    filter_text, show_search, error_message, selected_author >>
    /\ UNCHANGED << current_year, lastKey, ret, typed >>
    /\ UNCHANGED aggFields
    /\ UNCHANGED tuiFields
    /\ UNCHANGED mainFields

\* No row converted yet, in some year.
InitTimeline ==
    /\ current_year \in ReferenceYears
    /\ pc = "rows"
    /\ repository_data = NoData
    /\ selected_row = 0
    /\ sort_column = "FirstCommit"
    /\ sort_direction = "Ascending"
    /\ filter_text = << >>
    /\ show_search = FALSE
    /\ error_message = None
    /\ selected_author = None
    /\ author_heatmap_data = EmptyMap
    /\ lastKey = << >>
    /\ ret = TRUE
    /\ typed = None
    /\ walk = << >>
    /\ run_config = RepositoryConfig(None, None, None)
    /\ walk_rest = << >>
    /\ commit_rows = << >>
    /\ processed = 0
    /\ terminal = Cooked
    /\ tui_pc = "enable_raw_mode"
    /\ event = ""
    /\ reported = 0
    /\ exit_code = None

NextTimeline ==
    \/ TimelineAdd
    \/ TimelineProject
    \/ AuthorHeatmap

SpecTimeline == InitTimeline /\ [][NextTimeline]_vars

-----------------------------------------------------------------------------
(* Timelines and heat maps: the claims                                     *)

\* The sum of the values of a map of counters.
RECURSIVE SumOf(_)
SumOf(map) ==
    IF DOMAIN map = {} THEN 0
    ELSE LET k == CHOOSE k \in DOMAIN map : TRUE IN
         map[k] + SumOf([x \in (DOMAIN map) \ {k} |-> map[x]])

\* C21: after any sequence of add_commit calls the total_commits of each
\* author's timeline is the sum of the values of its commits_by_period, and
\* the totals of all authors together are the sum of every per-day count of
\* every author.
C21_TotalIsSum ==
    LET timeline_map == repository_data.author_timeline_data
        entries == { << e, date >> \in (DOMAIN timeline_map) \X TimelineDates :
                        date \in DOMAIN timeline_map[e].commits_by_period }
    IN /\ \A e \in DOMAIN timeline_map :
              timeline_map[e].total_commits = SumOf(timeline_map[e].commits_by_period)
       /\ SumTimelines(timeline_map, DOMAIN timeline_map) =
              SumOf([p \in entries |-> timeline_map[p[1]].commits_by_period[p[2]]])

\* Two authors have a timeline; three commits of one came onto one day in
\* more than one call.
C21_Witness ==
    /\ pc = "rows"
    /\ DOMAIN repository_data.author_timeline_data = {r1, Rq}
    /\ repository_data.author_timeline_data[r1].commits_by_period
           = Insert(EmptyMap, Date(2024, 2, 29), 3)
    /\ repository_data.author_timeline_data[r1].total_commits = 3
    /\ repository_data.author_timeline_data[Rq].total_commits = 1

\* C22: once a date has been inserted, the range of a TimelineData
\* (first_commit, last_commit) and of a HeatMapData (start_date, end_date) is
\* the earliest and the latest date inserted, whatever the dates are: a
\* single date inserted into an empty structure is both bounds.
C22_RangeIsMinMax ==
    LET timeline_map == repository_data.author_timeline_data
        heat_maps == { author_heatmap_data[e] : e \in DOMAIN author_heatmap_data }
                         \cup { repository_data.heatmap_data }
    IN /\ \A e \in DOMAIN timeline_map :
              LET dates == DOMAIN timeline_map[e].commits_by_period IN
              dates # {} =>
                  /\ timeline_map[e].first_commit = MinDate(dates)
                  /\ timeline_map[e].last_commit = MaxDate(dates)
       /\ \A h \in heat_maps :
              LET dates == DOMAIN h.commits_by_date IN
              dates # {} =>
                  /\ h.start_date = MinDate(dates)
                  /\ h.end_date = MaxDate(dates)

\* The heat map holds the count of each 29th of February of the timeline
\* under its own date when the year has no such day.
KeepsLeapDays(heat_map, timeline_data, year) ==
    \A date \in DOMAIN timeline_data.commits_by_period :
        (date.m = 2 /\ date.d = 29 /\ ~IsLeap(year)) =>
            /\ date \in DOMAIN heat_map.commits_by_date
            /\ heat_map.commits_by_date[date] = timeline_data.commits_by_period[date]

InOneCommonYear(timeline_data) ==
    LET dates == DOMAIN timeline_data.commits_by_period IN
    /\ dates # {}
    /\ \A a, b \in dates : a.y = b.y
    /\ \A a \in dates : ~IsLeap(a.y)

\* The largest value of a map of counters, 0 for the empty map.
MaxOf(map) ==
    IF DOMAIN map = {} THEN 0
    ELSE CHOOSE n \in { map[k] : k \in DOMAIN map } : \A k \in DOMAIN map : map[k] <= n

\* C24: for a timeline whose dates all lie in one year that is no leap year,
\* the heat map built of it has, for each date of the timeline, exactly the
\* timeline's count under the date of the same month and day in the
\* reference year, has no other key, has the same total, and has the
\* timeline's largest per-day count as its max_commits.
C24_RoundTrip ==
    LET timeline_map == repository_data.author_timeline_data IN
    \A e \in DOMAIN author_heatmap_data :
        InOneCommonYear(timeline_map[e]) =>
            LET by_period == timeline_map[e].commits_by_period
                heat_map == author_heatmap_data[e]
            IN /\ \A date \in DOMAIN by_period :
                      get_commits(heat_map, [y |-> current_year, m |-> date.m, d |-> date.d])
                          = by_period[date]
               /\ DOMAIN heat_map.commits_by_date
                      = { [y |-> current_year, m |-> date.m, d |-> date.d] :
                              date \in DOMAIN by_period }
               /\ SumOf(heat_map.commits_by_date) = timeline_map[e].total_commits
               /\ heat_map.max_commits = MaxOf(by_period)

\* The heat map of a timeline with two days of 2023, built in 2024.
C24_Witness ==
    /\ pc = "heat"
    /\ current_year = 2024
    /\ Rq \in DOMAIN author_heatmap_data
    /\ repository_data.author_timeline_data[Rq].commits_by_period
           = Insert(Insert(EmptyMap, Date(2023, 3, 1), 1), Date(2023, 12, 31), 3)
    /\ author_heatmap_data[Rq].commits_by_date
           = Insert(Insert(EmptyMap, Date(2024, 3, 1), 1), Date(2024, 12, 31), 3)
    /\ author_heatmap_data[Rq].max_commits = 3

\* The heat map after the (author, date) entries of the timelines have been
\* added to it in the order given.
RECURSIVE AddEntries(_, _, _, _)
AddEntries(h, timeline_map, visits, year) ==
    IF visits = << >> THEN h
    ELSE LET e == Head(visits)[1]
             date == Head(visits)[2]
         IN AddEntries(add_commits(h, calendar_date(year, date),
                                   timeline_map[e].commits_by_period[date]),
                       timeline_map, Tail(visits), year)

\* C25: the global heat map that prepare_heatmap_data_from_map builds is the
\* day-by-day sum of the heat maps create_from_timeline_data builds of each
\* author in the same reference year, and it is the same heat map in
\* whatever order the authors and their dates are visited.
C25_GlobalIsSumOfAuthors ==
    pc = "heat" =>
        LET timeline_map == repository_data.author_timeline_data
            global == repository_data.heatmap_data
            of_author == [e \in DOMAIN timeline_map |->
                             create_from_timeline_data(timeline_map[e], current_year)]
            entries == { << e, date >> \in (DOMAIN timeline_map) \X TimelineDates :
                            date \in DOMAIN timeline_map[e].commits_by_period }
        IN /\ DOMAIN global.commits_by_date
                  = UNION { DOMAIN of_author[e].commits_by_date : e \in DOMAIN timeline_map }
           /\ \A date \in DOMAIN global.commits_by_date :
                  global.commits_by_date[date]
                      = SumOf([e \in DOMAIN timeline_map |-> get_commits(of_author[e], date)])
           /\ \A visits \in Orderings(entries) :
                  AddEntries(HeatMapNew, timeline_map, visits, current_year) = global

\* Two authors have commits on the 1st of March of different years: the
\* global heat map of 2023 holds their sum, beside the 29th of February 2024.
C25_Witness ==
    /\ pc = "heat"
    /\ current_year = 2023
    /\ DOMAIN repository_data.author_timeline_data = {r1, Rq}
    /\ repository_data.author_timeline_data[r1].commits_by_period
           = Insert(Insert(EmptyMap, Date(2023, 3, 1), 1), Date(2024, 2, 29), 1)
    /\ repository_data.author_timeline_data[Rq].commits_by_period
           = Insert(EmptyMap, Date(2024, 3, 1), 2)
    /\ repository_data.heatmap_data.commits_by_date
           = Insert(Insert(EmptyMap, Date(2023, 3, 1), 3), Date(2024, 2, 29), 1)

-----------------------------------------------------------------------------
(* A heat map under add_commits.  HeatMapData::add_commits is public: the  *)
(* dates and the counts of the calls are drawn from bounded sets.          *)

\* Most commits the calls accumulate on one date.
MaxDayCommits == 20

\* Two days in a row and a 29th of February.
HeatDates == { Date(2023, 3, 1), Date(2023, 3, 2), Date(2024, 2, 29) }

\* The counts of the calls.
HeatCounts == { 0, 1, 2, 5 }

\* HeatMapData::add_commits on the heat map.
HeatAdd ==
    /\ pc = "adds"
    /\ \E date \in HeatDates, count \in HeatCounts :
           /\ get_commits(repository_data.heatmap_data, date) + count <= MaxDayCommits
           /\ repository_data' =
                  [repository_data EXCEPT
                      !.heatmap_data = add_commits(repository_data.heatmap_data, date, count)]
    /\ UNCHANGED << selected_row, sort_column, sort_direction, filter_text, show_search,
                    error_message, selected_author, author_heatmap_data >>
    /\ UNCHANGED << current_year, lastKey, ret, typed >>
    /\ UNCHANGED aggFields
    /\ UNCHANGED tuiFields
    /\ UNCHANGED mainFields

\* HeatMapData::new
InitHeat ==
    /\ pc = "adds"
    /\ repository_data = NoData
    /\ current_year = 2023
    /\ selected_row = 0
    /\ sort_column = "FirstCommit"
    /\ sort_direction = "Ascending"
    /\ filter_text = << >>
    /\ show_search = FALSE
    /\ error_message = None
    /\ selected_author = None
    /\ author_heatmap_data = EmptyMap
    /\ lastKey = << >>
    /\ ret = TRUE
    /\ typed = None
    /\ walk = << >>
    /\ run_config = RepositoryConfig(None, None, None)
    /\ walk_rest = << >>
    /\ commit_rows = << >>
    /\ processed = 0
    /\ terminal = Cooked
    /\ tui_pc = "enable_raw_mode"
    /\ event = ""
    /\ reported = 0
    /\ exit_code = None

NextHeat == HeatAdd

SpecHeat == InitHeat /\ [][NextHeat]_vars

\* C26: after any sequence of add_commits calls max_commits is the largest
\* count accumulated on a date of commits_by_date, 0 for the empty heat map,
\* also when several calls add to the same date.
C26_MaxIsLargestCount ==
    repository_data.heatmap_data.max_commits
        = MaxOf(repository_data.heatmap_data.commits_by_date)

\* Seven commits are on one date, more than any call adds, and fewer on
\* another.
C26_Witness ==
    /\ pc = "adds"
    /\ repository_data.heatmap_data.commits_by_date
           = Insert(Insert(EmptyMap, Date(2023, 3, 1), 7), Date(2023, 3, 2), 5)
    /\ repository_data.heatmap_data.max_commits = 7

\* The rule of the intensity levels: no level for no commit; the count
\* itself, at most 4, while the maximum is at most 4; else the first quarter
\* of the maximum (rounded down) the count does not exceed, the fourth when
\* it exceeds three of them.
Level(max_commits, commits) ==
    IF commits = 0 THEN 0
    ELSE IF max_commits <= 4
         THEN CHOOSE l \in 1..4 : l = commits \/ (l = 4 /\ commits > 4)
         ELSE LET q == max_commits \div 4 IN
              CHOOSE l \in 1..4 :
                  /\ l = 4 \/ commits <= l * q
                  /\ \A j \in 1..(l - 1) : commits > j * q

\* C27: get_intensity_level follows the rule for every count, its result is
\* one of 0..4, and with max_commits = 20 the counts 0, 3, 7, 12, 18 have the
\* levels 0, 1, 2, 3, 4.
C27_IntensityLevel ==
    LET h == repository_data.heatmap_data IN
    /\ \A commits \in 0..(MaxDayCommits + 2) :
           /\ get_intensity_level(h, commits) = Level(h.max_commits, commits)
           /\ get_intensity_level(h, commits) \in 0..4
    /\ h.max_commits = 20 =>
           [i \in 1..5 |-> get_intensity_level(h, << 0, 3, 7, 12, 18 >>[i])]
               = << 0, 1, 2, 3, 4 >>

\* A heat map whose busiest date has 20 commits: 5 commits are level 1,
\* 6 are level 2.
C27_Witness ==
    /\ pc = "adds"
    /\ repository_data.heatmap_data.max_commits = 20
    /\ get_commits(repository_data.heatmap_data, Date(2023, 3, 2)) = 12
    /\ get_intensity_level(repository_data.heatmap_data, 5) = 1
    /\ get_intensity_level(repository_data.heatmap_data, 6) = 2
    /\ get_intensity_level(repository_data.heatmap_data, 12) = 3

\* C28: the intensity level does not fall as the count grows: for counts
\* c1 <= c2 up to max_commits the level of c1 is at most the level of c2.
C28_IntensityMonotone ==
    LET h == repository_data.heatmap_data IN
    \A c1, c2 \in 0..h.max_commits :
        c1 <= c2 => get_intensity_level(h, c1) <= get_intensity_level(h, c2)

\* A heat map whose busiest date has 9 commits: the levels rise from 1 at 2
\* commits to 4 at 7.
C28_Witness ==
    /\ pc = "adds"
    /\ repository_data.heatmap_data.max_commits = 9
    /\ get_intensity_level(repository_data.heatmap_data, 2) = 1
    /\ get_intensity_level(repository_data.heatmap_data, 4) = 2
    /\ get_intensity_level(repository_data.heatmap_data, 6) = 3
    /\ get_intensity_level(repository_data.heatmap_data, 7) = 4

-----------------------------------------------------------------------------
(* tui.rs: run_tui.  Each call that can fail either succeeds or fails; a   *)
(* failure behind a `?` makes run_tui return the error at once.            *)

\* A step of run_tui outside handle_key_event: the AppState and the data
\* stay as they are.
TuiStep ==
    /\ pc = "tui"
    /\ UNCHANGED appFields
    /\ UNCHANGED << current_year, lastKey, ret, typed >>
    /\ UNCHANGED aggFields
    /\ UNCHANGED mainFields

\* enable_raw_mode()?
EnableRawMode ==
    /\ tui_pc = "enable_raw_mode"
    /\ \E ok \in BOOLEAN :
           IF ok
           THEN /\ terminal' = [terminal EXCEPT !.raw_mode = TRUE]
                /\ tui_pc' = "EnterAlternateScreen"
           ELSE /\ tui_pc' = "Err"
                /\ UNCHANGED terminal
    /\ UNCHANGED event
    /\ TuiStep

\* execute!(stdout, EnterAlternateScreen)?
EnterAlternateScreen ==
    /\ tui_pc = "EnterAlternateScreen"
    /\ \E ok \in BOOLEAN :
           IF ok
           THEN /\ terminal' = [terminal EXCEPT !.alternate_screen = TRUE]
                /\ tui_pc' = "Terminal::new"
           ELSE /\ tui_pc' = "Err"
                /\ UNCHANGED terminal
    /\ UNCHANGED event
    /\ TuiStep

\* Terminal::new(backend)?, and AppState::new behind it
NewTerminal ==
    /\ tui_pc = "Terminal::new"
    /\ \E ok \in BOOLEAN : tui_pc' = IF ok THEN "draw" ELSE "Err"
    /\ UNCHANGED terminal
    /\ UNCHANGED event
    /\ TuiStep

\* terminal.draw(|f| render_app(f, &mut app_state))?
Draw ==
    /\ tui_pc = "draw"
    /\ \E ok \in BOOLEAN : tui_pc' = IF ok THEN "read" ELSE "Err"
    /\ UNCHANGED terminal
    /\ UNCHANGED event
    /\ TuiStep

\* What run_tui does with the value of handle_key_event: the next pass of
\* the loop, or the break.
Handled ==
    /\ tui_pc' = IF ret' THEN "draw" ELSE "disable_raw_mode"
    /\ event' = "Key"
    /\ UNCHANGED terminal

\* event::read() gave Ok(Event::Resize(_, _))
ReadResize ==
    /\ tui_pc = "read"
    /\ tui_pc' = "draw"
    /\ UNCHANGED terminal
    /\ event' = "Resize"
    /\ TuiStep

\* event::read() gave another event that is no key event
ReadOther ==
    /\ tui_pc = "read"
    /\ tui_pc' = "draw"
    /\ UNCHANGED terminal
    /\ event' = "Other"
    /\ TuiStep

\* Variant of the Err arm that breaks out of the loop.
ReadErr_breaking ==
    /\ tui_pc = "read"
    /\ tui_pc' = "disable_raw_mode"
    /\ UNCHANGED terminal
    /\ event' = "Err"
    /\ TuiStep

\* event::read() gave Err(e): the error is printed
ReadErr ==
    /\ tui_pc = "read"
    /\ tui_pc' = "draw"
    /\ UNCHANGED terminal
    /\ event' = "Err"
    /\ TuiStep

\* disable_raw_mode()?
DisableRawMode ==
    /\ tui_pc = "disable_raw_mode"
    /\ \E ok \in BOOLEAN :
           IF ok
           THEN /\ terminal' = [terminal EXCEPT !.raw_mode = FALSE]
                /\ tui_pc' = "LeaveAlternateScreen"
           ELSE /\ tui_pc' = "Err"
                /\ UNCHANGED terminal
    /\ UNCHANGED event
    /\ TuiStep

\* execute!(terminal.backend_mut(), LeaveAlternateScreen)?
LeaveAlternateScreen ==
    /\ tui_pc = "LeaveAlternateScreen"
    /\ \E ok \in BOOLEAN :
           IF ok
           THEN /\ terminal' = [terminal EXCEPT !.alternate_screen = FALSE]
                /\ tui_pc' = "show_cursor"
           ELSE /\ tui_pc' = "Err"
                /\ UNCHANGED terminal
    /\ UNCHANGED event
    /\ TuiStep

\* terminal.show_cursor()?, and Ok(()) behind it
ShowCursor ==
    /\ tui_pc = "show_cursor"
    /\ \E ok \in BOOLEAN : tui_pc' = IF ok THEN "Ok" ELSE "Err"
    /\ UNCHANGED terminal
    /\ UNCHANGED event
    /\ TuiStep

\* The session run_tui is followed through: --max-commits 1, one author.
TuiSession == [config |-> RepositoryConfig(Some(1), None, None), year |-> 2023]

\* main has the repository data and calls run_tui.
InitTui ==
    /\ current_year = TuiSession.year
    /\ run_config = TuiSession.config
    /\ repository_data \in RepositoryDatas(Revwalk, TuiSession.config, TuiSession.year)
    /\ walk = Revwalk
    /\ walk_rest = << >>
    /\ commit_rows = << >>
    /\ processed = 0
    /\ pc = "tui"
    /\ selected_row = 0
    /\ sort_column = "FirstCommit"
    /\ sort_direction = "Ascending"
    /\ filter_text = << >>
    /\ show_search = FALSE
    /\ error_message = None
    /\ selected_author = None
    /\ author_heatmap_data = EmptyMap
    /\ lastKey = << >>
    /\ ret = TRUE
    /\ typed = None
    /\ terminal = Cooked
    /\ tui_pc = "enable_raw_mode"
    /\ event = ""
    /\ reported = 0
    /\ exit_code = None

NextTui ==
    \/ EnableRawMode
    \/ EnterAlternateScreen
    \/ NewTerminal
    \/ Draw
    \/ tui_pc = "read" /\ KeyQuit /\ Handled
    \/ tui_pc = "read" /\ KeyUp /\ Handled
    \/ tui_pc = "read" /\ KeyDown /\ Handled
    \/ tui_pc = "read" /\ KeySlash /\ Handled
    \/ tui_pc = "read" /\ KeyEnter /\ Handled
    \/ tui_pc = "read" /\ KeyBackspace /\ Handled
    \/ tui_pc = "read" /\ KeyChar /\ Handled
    \/ tui_pc = "read" /\ KeyOther /\ Handled
    \/ ReadResize
    \/ ReadOther
    \/ ReadErr
    \/ DisableRawMode
    \/ LeaveAlternateScreen
    \/ ShowCursor

SpecTui == InitTui /\ [][NextTui]_vars

\* run_tui has returned.
Returned == tui_pc \in {"Ok", "Err"}

\* run_tui is in its loop.
InLoop == tui_pc \in {"draw", "read"}

\* C29: whenever run_tui has returned, by Ok or by an error of any of its
\* calls, the terminal is out of raw mode and out of the alternate screen.
C29_TerminalRestored ==
    Returned => terminal = Cooked

\* C30: the loop of run_tui is left only by a handle_key_event call that
\* returns false: no draw, no input-read error and no event that is no key
\* event ends it.
C30_LoopEndsOnFalseOnly ==
    [][ (InLoop /\ ~InLoop') =>
            /\ tui_pc = "read"
            /\ lastKey' # << >>
            /\ ret
            /\ ~ret'
      ]_vars

-----------------------------------------------------------------------------
(* main.rs: main.  The repository is opened, the commits are aggregated,   *)
(* run_tui is entered with the data; of the keys, the session has Enter    *)
(* and the keys that quit.                                                 *)

\* Variant of the opening whose failure is printed and then passed over:
\* the aggregation goes on.
OpenRepository_carrying_on ==
    /\ pc = "open"
    /\ \E ok \in BOOLEAN :
           IF ok
           THEN /\ pc' = "walk"
                /\ UNCHANGED mainFields
           ELSE /\ pc' = "walk"
                /\ reported' = reported + 1
                /\ UNCHANGED exit_code
    /\ UNCHANGED << walk, run_config, walk_rest, commit_rows, processed >>
    /\ UNCHANGED appFields
    /\ UNCHANGED << current_year, lastKey, ret, typed >>
    /\ UNCHANGED tuiFields

\* Repository::open in get_repository_data_with_config, and what main does
\* with its failure: eprintln!("Error: {error}") and std::process::exit(1).
OpenRepository ==
    /\ pc = "open"
    /\ \E ok \in BOOLEAN :
           IF ok
           THEN /\ pc' = "walk"
                /\ UNCHANGED mainFields
           ELSE /\ pc' = "exit"
                /\ reported' = reported + 1
                /\ exit_code' = Some(1)
    /\ UNCHANGED << walk, run_config, walk_rest, commit_rows, processed >>
    /\ UNCHANGED appFields
    /\ UNCHANGED << current_year, lastKey, ret, typed >>
    /\ UNCHANGED tuiFields

\* tui::run_tui(repository_data)?; Ok(()): main returns what run_tui
\* returned, and the process exits with 0 for Ok and 1 for an error.
MainReturn ==
    /\ pc = "tui"
    /\ Returned
    /\ exit_code = None
    /\ exit_code' = Some(IF tui_pc = "Ok" THEN 0 ELSE 1)
    /\ UNCHANGED reported
    /\ UNCHANGED appFields
    /\ UNCHANGED << current_year, lastKey, ret, typed >>
    /\ UNCHANGED aggFields
    /\ UNCHANGED tuiFields

\* The command lines of main: no option, --max-commits 1, --since with
\* --until.
MainConfigs ==
    { RepositoryConfig(None, None, None),
      RepositoryConfig(Some(1), None, None),
      RepositoryConfig(None, Some(Day2), Some(Day2)) }

\* main has parsed its arguments.
InitMain ==
    /\ walk \in Walks
    /\ run_config \in MainConfigs
    /\ walk_rest = walk
    /\ commit_rows = << >>
    /\ processed = 0
    /\ pc = "open"
    /\ current_year = 2023
    /\ repository_data = NoData
    /\ selected_row = 0
    /\ sort_column = "FirstCommit"
    /\ sort_direction = "Ascending"
    /\ filter_text = << >>
    /\ show_search = FALSE
    /\ error_message = None
    /\ selected_author = None
    /\ author_heatmap_data = EmptyMap
    /\ lastKey = << >>
    /\ ret = TRUE
    /\ typed = None
    /\ terminal = Cooked
    /\ tui_pc = "enable_raw_mode"
    /\ event = ""
    /\ reported = 0
    /\ exit_code = None

NextMain ==
    \/ OpenRepository
    \/ WalkEnd
    \/ WalkBreak
    \/ WalkSkip
    \/ WalkBeforeSince
    \/ WalkAfterUntil
    \/ WalkPush
    \/ Group
    \/ EnableRawMode
    \/ EnterAlternateScreen
    \/ NewTerminal
    \/ Draw
    \/ tui_pc = "read" /\ KeyQuit /\ Handled
    \/ tui_pc = "read" /\ KeyEnter /\ Handled
    \/ ReadResize
    \/ ReadOther
    \/ ReadErr
    \/ DisableRawMode
    \/ LeaveAlternateScreen
    \/ ShowCursor
    \/ MainReturn

SpecMain == InitMain /\ [][NextMain]_vars

\* C31: when opening the repository fails, main has reported the error
\* once, the process has exited with code 1, and neither raw mode nor the
\* loop of run_tui is ever entered; and when run_tui has taken a step the
\* aggregation has run to its end: the loop over the commits is over, and
\* at the first draw and the first read the data is what the whole walk
\* aggregates to.
C31_OpenFailureAndOrder ==
    /\ pc = "exit" =>
           /\ reported = 1
           /\ exit_code = Some(1)
           /\ terminal = Cooked
           /\ tui_pc = "enable_raw_mode"
           /\ repository_data = NoData
    /\ pc # "exit" => reported = 0
    /\ (tui_pc # "enable_raw_mode" \/ terminal # Cooked) =>
           /\ pc = "tui"
           /\ walk_rest = << >>
    /\ (InLoop /\ event = "") =>
           repository_data \in RepositoryDatas(walk, run_config, current_year)

\* The repository could not be opened: the error is reported, the process
\* has exited with 1, the terminal is untouched.
C31_Witness ==
    /\ pc = "exit"
    /\ reported = 1
    /\ exit_code = Some(1)
    /\ walk # << >>
    /\ terminal = Cooked
    /\ tui_pc = "enable_raw_mode"

-----------------------------------------------------------------------------
(* The session: further claims                                             *)

\* C32: no handle_key_event call changes the aggregated data: the summaries
\* of commit_data and their order, author_timeline_data and the global
\* heatmap_data stay what they were at AppState::new.
C32_KeysKeepData ==
    [][ /\ repository_data'.commit_data = repository_data.commit_data
        /\ repository_data'.author_timeline_data = repository_data.author_timeline_data
        /\ repository_data'.heatmap_data = repository_data.heatmap_data
      ]_vars

\* Keys have changed the sort, typed a filter and selected an author, whose
\* heat map is cached: commit_data is in the order of AppState::new.
C32_Witness ==
    /\ lastKey = Enter
    /\ selected_author = Some(Rq)
    /\ DOMAIN author_heatmap_data = {r1, Rq}
    /\ sort_column = "Email"
    /\ sort_direction = "Descending"
    /\ filter_text = << "R" >>
    /\ Len(repository_data.commit_data) = 2
    /\ repository_data.commit_data[1].email = r1
    /\ repository_data.commit_data[2].email = Rq

C34_TieOrder ==
    (sort_column = "FirstCommit" /\ sort_direction = "Ascending") =>
        \A i, j \in DOMAIN sorted_data :
            (i < j /\ sorted_data[i].first_commit = sorted_data[j].first_commit) =>
                DaysFromEpoch(sorted_data[i].last_commit)
                    >= DaysFromEpoch(sorted_data[j].last_commit)

\* The order was another one; 'r' has led back to FirstCommit ascending, and
\* of the two authors who began on the same day the one whose last commit is
\* the later one is the first row.
C34_Witness ==
    /\ lastKey = Char("r")
    /\ sort_column = "FirstCommit"
    /\ sort_direction = "Ascending"
    /\ Len(sorted_data) = 2
    /\ sorted_data[1].first_commit = sorted_data[2].first_commit
    /\ sorted_data[1].email = r1
    /\ sorted_data[1].last_commit = Date(2024, 2, 29)
    /\ sorted_data[2].last_commit = Date(2023, 3, 1)

\* C35: in every state reached by key events a selected author is a key of
\* author_heatmap_data, so get_filtered_heatmap_data() is that author's heat
\* map (the one built from the author's timeline) and not the global one; and
\* every key of author_heatmap_data is the email of a summary of commit_data.
C35_SelectedIsCached ==
    /\ DOMAIN author_heatmap_data \subseteq Emails
    /\ IsSome(selected_author) =>
           LET id == Unwrap(selected_author) IN
           /\ id \in DOMAIN author_heatmap_data
           /\ id \in DOMAIN repository_data.author_timeline_data
           /\ get_filtered_heatmap_data =
                  create_from_timeline_data(repository_data.author_timeline_data[id],
                                            current_year)
           /\ get_filtered_heatmap_data # repository_data.heatmap_data

\* An author was selected, then a search was typed that hides the author's
\* row: the selection stays, with its heat map in the cache.
C35_Witness ==
    /\ selected_author = Some(r1)
    /\ r1 \in DOMAIN author_heatmap_data
    /\ show_search
    /\ filter_text # << >>
    /\ \A i \in DOMAIN sorted_data : sorted_data[i].email # r1
    /\ get_filtered_heatmap_data = author_heatmap_data[r1]

\* C37: in every state reached by key events selected_row is at most
\* len(commit_data) - 1, and 0 when commit_data is empty, whatever filter is
\* active.
C37_RowWithinAuthors ==
    /\ repository_data.commit_data = << >> => selected_row = 0
    /\ repository_data.commit_data # << >> =>
           selected_row <= Len(repository_data.commit_data) - 1

\* Down was pressed on the last author's index while the filter shows one row
\* only: selected_row stays at len(commit_data) - 1.
C37_Witness ==
    /\ lastKey = Down
    /\ Len(repository_data.commit_data) = 2
    /\ selected_row = Len(repository_data.commit_data) - 1
    /\ filter_text # << >>
    /\ Len(sorted_data) = 1

\* C38: outside search mode, with no row at selected_row in sorted_data()
\* (empty view, or selected_row beyond the filtered view), Enter returns true
\* and changes nothing: selected_author and author_heatmap_data stay, so an
\* author selected before stays selected while the filter hides it.
C38_EnterWithoutRow ==
    [][ (/\ lastKey' = Enter
         /\ ~show_search
         /\ selected_row + 1 \notin DOMAIN sorted_data) =>
            /\ ret'
            /\ UNCHANGED << selected_author, author_heatmap_data >>
            /\ UNCHANGED appFields
      ]_vars

\* Enter outside search mode with selected_row beyond the filtered view: the
\* author selected before, hidden by the filter, is still selected.
C38_Witness ==
    /\ lastKey = Enter
    /\ typed = None
    /\ ret
    /\ ~show_search
    /\ filter_text # << >>
    /\ selected_row + 1 \notin DOMAIN sorted_data
    /\ selected_author = Some(r1)
    /\ \A i \in DOMAIN sorted_data : sorted_data[i].email # r1
    /\ DOMAIN author_heatmap_data = {r1}

-----------------------------------------------------------------------------
(* repository.rs: the aggregation on a walk with a commit dated after      *)
(* 2099-01-01 (the author's clock was wrong; git keeps the time as given)  *)

FarDay == Date(2099, 6, 1)

\* The commits such a walk is made of: r1 on two days of 2023, Rq on the far
\* day, a commit whose author has no email.
FarCommits ==
    { Commit(Some(r1), Some(Day1)), Commit(Some(r1), Some(Day2)),
      Commit(Some(Rq), Some(FarDay)), Commit(None, Some(Day2)) }

MaxFarWalkLen == 2

FarWalks == UNION { [1..n -> FarCommits] : n \in 0..MaxFarWalkLen }

\* The start of collect_commit_info_polars on such a repository.
InitAggFar ==
    /\ walk \in FarWalks
    /\ run_config \in Configs
    /\ walk_rest = walk
    /\ commit_rows = << >>
    /\ processed = 0
    /\ terminal = Cooked
    /\ tui_pc = "enable_raw_mode"
    /\ event = ""
    /\ reported = 0
    /\ exit_code = None
    /\ pc = "walk"
    /\ current_year = 2023
    /\ repository_data = NoData
    /\ selected_row = 0
    /\ sort_column = "FirstCommit"
    /\ sort_direction = "Ascending"
    /\ filter_text = << >>
    /\ show_search = FALSE
    /\ error_message = None
    /\ selected_author = None
    /\ author_heatmap_data = EmptyMap
    /\ lastKey = << >>
    /\ ret = TRUE
    /\ typed = None

SpecAggFar == InitAggFar /\ [][NextAgg]_vars

\* C36: for every author the aggregation returns, under any filter and cap,
\* the author has a timeline whose total_commits, first_commit and
\* last_commit are the summary's commits, first_commit and last_commit; and
\* there is no timeline for an identity without a summary.
C36_TimelineAgreesWithSummary ==
    pc = "tui" =>
        LET cd == repository_data.commit_data
            timelines == repository_data.author_timeline_data
        IN /\ \A i \in DOMAIN cd :
                  /\ cd[i].email \in DOMAIN timelines
                  /\ timelines[cd[i].email].total_commits = cd[i].commits
                  /\ timelines[cd[i].email].first_commit = cd[i].first_commit
                  /\ timelines[cd[i].email].last_commit = cd[i].last_commit
           /\ \A email \in DOMAIN timelines :
                  \E i \in DOMAIN cd : cd[i].email = email

\* C39: with draws that succeed, once a 'q' or Esc key event has been
\* delivered, in either mode, the loop has ended and run_tui, when it returns,
\* leaves the terminal restored.  (The calls behind the loop follow one
\* another without waiting, so that run_tui returns is their progress; what a
\* finite run shows is the state it returns in.)
C39_QuitRestoresTerminal ==
    (Returned /\ ~ret /\ lastKey \in {Char("q"), Esc}) => terminal = Cooked

====
